---- MODULE Spec2Model ----
(***************************************************************************)
(* sysconfig-inspector: the SSHD / SSH configuration parsers               *)
(* (sysconfig_inspector/sshd.py, sysconfig_inspector/ssh.py).              *)
(*                                                                         *)
(* Text is modelled at character level: a line is a tuple of one-character *)
(* strings, and str.split / str.strip / str.lower / int() are operators on *)
(* such tuples.  Keys, criteria and string values stored in the parsed     *)
(* dictionaries are TLA+ strings obtained by concatenating the characters. *)
(***************************************************************************)
EXTENDS Integers, Sequences, FiniteSets, TLC

VARIABLES inspector, files, globs, main_path, pc, stack, sshd_config,
          config_file_paths, reads, exception,
          matching_config, missing_from_actual, extra_in_actual, passed,
          sysctl_config, matching, actual_limits_config, matching_limits

vars == <<inspector, files, globs, main_path, pc, stack, sshd_config,
          config_file_paths, reads, exception,
          matching_config, missing_from_actual, extra_in_actual, passed,
          sysctl_config, matching, actual_limits_config, matching_limits>>

\* the attributes only SysctlInspector (sysctl.py) and PamLimits
\* (pam_limits.py) have
siblings == <<sysctl_config, matching, actual_limits_config, matching_limits>>

\* the three result attributes of compare_to, and the target trees its
\* caller has passed so far (the caller's objects), in call order
results == <<matching_config, missing_from_actual, extra_in_actual, passed>>

(***************************************************************************)
(* Python text primitives                                                  *)
(***************************************************************************)

\* str.isspace() for the characters of the model's alphabet
Whitespace == {" ", "\t", "\n"}

\* str.lower(), per character
ToLower ==
    ("A" :> "a") @@ ("B" :> "b") @@ ("C" :> "c") @@ ("D" :> "d") @@
    ("E" :> "e") @@ ("F" :> "f") @@ ("G" :> "g") @@ ("H" :> "h") @@
    ("I" :> "i") @@ ("J" :> "j") @@ ("K" :> "k") @@ ("L" :> "l") @@
    ("M" :> "m") @@ ("N" :> "n") @@ ("O" :> "o") @@ ("P" :> "p") @@
    ("Q" :> "q") @@ ("R" :> "r") @@ ("S" :> "s") @@ ("T" :> "t") @@
    ("U" :> "u") @@ ("V" :> "v") @@ ("W" :> "w") @@ ("X" :> "x") @@
    ("Y" :> "y") @@ ("Z" :> "z")

LowerChar(c) == IF c \in DOMAIN ToLower THEN ToLower[c] ELSE c

Lower(cs) == [i \in 1..Len(cs) |-> LowerChar(cs[i])]

\* the decimal digits int() accepts
DigitVal ==
    ("0" :> 0) @@ ("1" :> 1) @@ ("2" :> 2) @@ ("3" :> 3) @@ ("4" :> 4) @@
    ("5" :> 5) @@ ("6" :> 6) @@ ("7" :> 7) @@ ("8" :> 8) @@ ("9" :> 9)

RECURSIVE Str(_)
\* the Python str made of the characters cs
Str(cs) == IF cs = <<>> THEN "" ELSE Head(cs) \o Str(Tail(cs))

RECURSIVE LStripSet(_, _)
\* str.lstrip(chars)
LStripSet(cs, chars) ==
    IF cs # <<>> /\ Head(cs) \in chars THEN LStripSet(Tail(cs), chars) ELSE cs

RECURSIVE RStripSet(_, _)
\* str.rstrip(chars)
RStripSet(cs, chars) ==
    IF cs # <<>> /\ cs[Len(cs)] \in chars
    THEN RStripSet(SubSeq(cs, 1, Len(cs) - 1), chars)
    ELSE cs

\* str.strip()
Strip(cs) == RStripSet(LStripSet(cs, Whitespace), Whitespace)

\* str.strip('"')
StripQuotes(cs) == RStripSet(LStripSet(cs, {"\""}), {"\""})

RECURSIVE WordLen(_)
\* length of the leading run of non-whitespace characters
WordLen(cs) ==
    IF cs = <<>> \/ Head(cs) \in Whitespace THEN 0 ELSE 1 + WordLen(Tail(cs))

RECURSIVE Split(_, _)
\* str.split(None, maxsplit): words separated by runs of whitespace; once
\* maxsplit words are taken the remainder (left-stripped only) is the last
\* element, if it is not empty
Split(cs, maxsplit) ==
    LET t == LStripSet(cs, Whitespace) IN
    IF t = <<>> THEN <<>>
    ELSE IF maxsplit = 0 THEN <<t>>
    ELSE LET n == WordLen(t) IN
         <<SubSeq(t, 1, n)>> \o Split(SubSeq(t, n + 1, Len(t)), maxsplit - 1)

\* str.startswith("#")
StartsWithHash(cs) == cs # <<>> /\ Head(cs) = "#"

RECURSIVE DigitsValue(_, _)
\* value of a digit string read left to right, acc the value so far
DigitsValue(cs, acc) ==
    IF cs = <<>> THEN acc
    ELSE DigitsValue(Tail(cs),
                     IF Head(cs) = "_" THEN acc ELSE 10 * acc + DigitVal[Head(cs)])

\* digits with single underscores between digits, as int() accepts them
IsDigitString(cs) ==
    /\ cs # <<>>
    /\ \A i \in 1..Len(cs) : cs[i] \in DOMAIN DigitVal \/ cs[i] = "_"
    /\ cs[1] # "_" /\ cs[Len(cs)] # "_"
    /\ \A i \in 1..(Len(cs) - 1) : ~(cs[i] = "_" /\ cs[i + 1] = "_")

\* int(s): surrounding whitespace, an optional sign, digits; ok = FALSE
\* stands for ValueError
PyInt(cs) ==
    LET t    == Strip(cs)
        sign == IF t # <<>> /\ t[1] \in {"+", "-"} THEN t[1] ELSE ""
        body == IF sign = "" THEN t ELSE Tail(t)
    IN  IF IsDigitString(body)
        THEN [ok |-> TRUE,
              n  |-> IF sign = "-" THEN 0 - DigitsValue(body, 0)
                                   ELSE DigitsValue(body, 0)]
        ELSE [ok |-> FALSE, n |-> 0]

(***************************************************************************)
(* Configuration values: int | bool | str | None                           *)
(***************************************************************************)

IntVal(n)  == [t |-> "int",  n |-> n, s |-> ""]
BoolVal(b) == [t |-> "bool", n |-> IF b THEN 1 ELSE 0, s |-> ""]
StrVal(s)  == [t |-> "str",  n |-> 0, s |-> s]
NoneVal    == [t |-> "none", n |-> 0, s |-> ""]

\* a (key, value) pair returned by a directive parser; kind "none" is the
\* Python value None returned by falling off the end of the function
Pair(k, v) == [kind |-> "pair", key |-> k, value |-> v]
NoPair     == [kind |-> "none", key |-> "", value |-> NoneVal]

\* the empty dict
EmptyDict == [k \in {} |-> NoneVal]

\* d[k] = v
DictSet(d, k, v) == [x \in DOMAIN d \cup {k} |-> IF x = k THEN v ELSE d[x]]

\* if k not in d: d[k] = v
DictSetDefault(d, k, v) == IF k \in DOMAIN d THEN d ELSE DictSet(d, k, v)

(***************************************************************************)
(* Directive parser                                                        *)
(***************************************************************************)

\* _get_directive_type: 'match', 'include' or 'other' by the lower-cased
\* first word of the line
_get_directive_type(line) ==
    LET first_word == IF Strip(line) # <<>>
                      THEN Str(Split(Lower(line), 1)[1]) ELSE ""
    IN  IF first_word = "match" THEN "match"
        ELSE IF first_word = "include" THEN "include"
        ELSE "other"

\* what a directive parser of sshd.py returns when no branch returns: None;
\* ssh.py returns the pair ("", "") instead
NoKey(insp) == IF insp = "sshd" THEN NoPair ELSE Pair("", StrVal(""))

\* _parse_subsystem_line
_parse_subsystem_line(insp, line) ==
    LET parts == Split(line, 2) IN
    IF Len(parts) = 3
    THEN Pair(Str(parts[1]) \o " " \o Str(parts[2]), StrVal(Str(Strip(parts[3]))))
    ELSE NoKey(insp)

\* _parse_acceptenv_line
_parse_acceptenv_line(insp, line) ==
    LET parts == Split(line, 1) IN
    IF Len(parts) = 2
    THEN Pair(Str(Strip(parts[1])), StrVal(Str(Strip(parts[2]))))
    ELSE NoKey(insp)

\* the cast of the raw value of a generic directive: int, then yes/no, else
\* the string itself
CastValue(value_raw) ==
    IF PyInt(value_raw).ok THEN IntVal(PyInt(value_raw).n)
    ELSE IF Str(Lower(value_raw)) = "yes" THEN BoolVal(TRUE)
    ELSE IF Str(Lower(value_raw)) = "no" THEN BoolVal(FALSE)
    ELSE StrVal(Str(value_raw))

\* the value of a directive written without a value: None in sshd.py, True
\* in ssh.py
SingleWordValue(insp) == IF insp = "sshd" THEN NoneVal ELSE BoolVal(TRUE)

\* _parse_directive_line
_parse_directive_line(insp, line) ==
    LET directive == Str(Split(Lower(line), 1)[1])
        parts     == Split(line, 1)
    IN  IF directive = "subsystem" THEN _parse_subsystem_line(insp, line)
        ELSE IF directive = "acceptenv" THEN _parse_acceptenv_line(insp, line)
        ELSE IF Len(parts) = 2
             THEN Pair(Str(Strip(parts[1])), CastValue(StripQuotes(Strip(parts[2]))))
        ELSE IF Len(parts) = 1
             THEN Pair(Str(Strip(parts[1])), SingleWordValue(insp))
        ELSE NoKey(insp)

\* "key, value = <returned>" raises TypeError when the parser returned None
UnpackRaises(pair) == pair.kind = "none"

\* the store of one line of a Match block into its settings
StoreSetting(settings, key, value) == DictSet(settings, key, value)

\* "if key: settings[key] = value"
AddSetting(settings, pair) ==
    IF pair.key # "" THEN StoreSetting(settings, pair.key, pair.value) ELSE settings

RECURSIVE BuildSettings(_, _, _)
RECURSIVE BuildSettingsStep(_, _, _, _)
\* the loop of _build_match_block over the block's lines; raised = TRUE when
\* unpacking the parser's result raised TypeError
BuildSettings(insp, config_lines, settings) ==
    IF config_lines = <<>> THEN [raised |-> FALSE, settings |-> settings]
    ELSE BuildSettingsStep(insp, config_lines, settings,
                           _parse_directive_line(insp, Head(config_lines)))

\* one turn of that loop, pair being what the parser returned for the line
BuildSettingsStep(insp, config_lines, settings, pair) ==
    IF UnpackRaises(pair) THEN [raised |-> TRUE, settings |-> settings]
    ELSE BuildSettings(insp, Tail(config_lines), AddSetting(settings, pair))

\* the block _build_match_block returns for the settings built
MatchBlock(criteria, built) ==
    [raised |-> built.raised,
     block  |-> [criterium |-> criteria, settings |-> built.settings]]

\* _build_match_block
_build_match_block(insp, criteria, config_lines) ==
    MatchBlock(criteria, BuildSettings(insp, config_lines, EmptyDict))

\* mutant of StoreGlobal: the last value wins
StoreGlobal_LastWins(parsed_config, key, value) == DictSet(parsed_config, key, value)

\* the store of one global directive: first value wins
StoreGlobal(parsed_config, key, value) == DictSetDefault(parsed_config, key, value)

\* "if key and key not in parsed_config: parsed_config[key] = value"
AddGlobal(parsed_config, pair) ==
    IF UnpackRaises(pair) THEN [raised |-> TRUE, parsed_config |-> parsed_config]
    ELSE [raised |-> FALSE,
          parsed_config |-> IF pair.key # ""
                            THEN StoreGlobal(parsed_config, pair.key, pair.value)
                            ELSE parsed_config]

\* _handle_global_directive (sshd.py), and the same three lines at the end of
\* the loop body of _parse_sshd_config_lines in ssh.py
_handle_global_directive(insp, line, parsed_config) ==
    AddGlobal(parsed_config, _parse_directive_line(insp, line))

\* the criterion of a Match line: the text after the first word, stripped.
\* sshd.py (_extract_match_criteria) indexes parts[1] and raises IndexError
\* when the line has one word; ssh.py takes "" then
MatchCriteria(insp, line) ==
    LET parts == Split(line, 1) IN
    IF Len(parts) > 1 THEN [raised |-> FALSE, criteria |-> Str(Strip(parts[2]))]
    ELSE IF insp = "sshd" THEN [raised |-> TRUE, criteria |-> ""]
    ELSE [raised |-> FALSE, criteria |-> ""]

(***************************************************************************)
(* File reader and line sanitizer                                          *)
(***************************************************************************)

\* a path that is in no directory
MissingFile == [kind |-> "missing", lines |-> <<>>]

FileAt(path) == IF path \in DOMAIN files THEN files[path] ELSE MissingFile

\* os.path.isfile
IsFile(path) == FileAt(path).kind \in {"file", "unreadable"}

\* FileConfigReader.read_lines / SSHInspector._read_file: open() raises an
\* OSError for a missing path, a directory and an unreadable file; it is
\* caught and [] returned
\* mutant of read_lines: the lines are returned without the guard of the
\* except clause
read_lines_Unguarded(path) == FileAt(path).lines

read_lines(path) == IF FileAt(path).kind = "file" THEN FileAt(path).lines ELSE <<>>

\* glob.glob(pattern)
Glob(pattern) == IF pattern \in DOMAIN globs THEN globs[pattern] ELSE <<>>

\* the test of the two filters of cleanse_lines
KeepLine(line) == Strip(line) # <<>> /\ ~StartsWithHash(Strip(line))

\* SSHDConfigCleaner.cleanse_lines / SSHInspector._cleanse_config_lines: the
\* lines kept are returned as they were read
cleanse_lines(raw_lines) == SelectSeq(raw_lines, KeepLine)

(***************************************************************************)
(* Config parser: _parse_sshd_config_lines as a machine of line steps.     *)
(* stack holds one frame per active call of _parse_sshd_config_lines, the  *)
(* innermost last; an Include line of ssh.py opens the loop of             *)
(* _parse_included_files in the frame (field inc) and each matched file    *)
(* pushes a frame.                                                         *)
(***************************************************************************)

\* Optional[str] / an optional dict entry: <<>> is None / absent
None == <<>>
Some(x) == <<x>>

\* the dictionary a parse returns: the directives, and the entry "Match"
\* (absent, or the list of blocks)
Tree(config, match) == [config |-> config, Match |-> match]

\* {}
EmptyTree == Tree(EmptyDict, None)

\* the locals of _parse_sshd_config_lines at its first line
NewFrame(path, config_lines) ==
    [path                   |-> path,
     config_lines           |-> config_lines,
     i                      |-> 1,
     parsed_config          |-> EmptyDict,
     match_blocks           |-> <<>>,
     current_match_criteria |-> None,
     current_match_lines    |-> <<>>,
     inc                    |-> None]

Top == stack[Len(stack)]

SetTop(f) == [stack EXCEPT ![Len(stack)] = f]

\* the frame is at a line of its file, outside the include loop
AtLine(f) == f.inc = None /\ f.i <= Len(f.config_lines)

\* "if current_match_criteria:" -- a criterion that is set and not empty
Truthy(criteria) == criteria # None /\ criteria[1] # ""

\* match_blocks.append(block), built being what _build_match_block gave
AppendBlock(match_blocks, built) ==
    [raised |-> built.raised, match_blocks |-> Append(match_blocks, built.block)]

\* the block the frame has open is closed and appended, if it has a truthy
\* criterion
FlushBlock(insp, f) ==
    IF Truthy(f.current_match_criteria)
    THEN AppendBlock(f.match_blocks,
                     _build_match_block(insp, f.current_match_criteria[1],
                                        f.current_match_lines))
    ELSE [raised |-> FALSE, match_blocks |-> f.match_blocks]

\* "if match_blocks: parsed_config['Match'] = match_blocks"
AttachMatch(parsed_config, match_blocks) ==
    Tree(parsed_config, IF match_blocks # <<>> THEN Some(match_blocks) ELSE None)

\* an exception leaves the constructor: no inspector is built
Raise(name) ==
    /\ pc' = "raised"
    /\ exception' = name
    /\ stack' = <<>>
    /\ UNCHANGED <<inspector, files, globs, main_path, sshd_config,
                   config_file_paths, reads, results,
                   siblings>>

\* the program goes on with the stack given
Continue(new_stack) ==
    /\ stack' = new_stack
    /\ UNCHANGED <<inspector, files, globs, main_path, pc, sshd_config,
                   config_file_paths, reads, exception, results,
                   siblings>>

\* ssh.py also looks for the client configuration at its default path
SSH_CONFIG_PATH == "/etc/ssh/ssh_config"

\* _discover_config_files
_discover_config_files(insp, path) ==
    (IF IsFile(path) THEN <<path>> ELSE <<>>)
    \o (IF insp = "ssh" /\ IsFile(SSH_CONFIG_PATH) THEN <<SSH_CONFIG_PATH>> ELSE <<>>)

\* __init__ up to the call of _parse_sshd_config_lines on the main file
Construct ==
    /\ pc = "init"
    /\ config_file_paths' = _discover_config_files(inspector, main_path)
    /\ reads' = Append(reads, main_path)
    /\ stack' = <<NewFrame(main_path, cleanse_lines(read_lines(main_path)))>>
    /\ pc' = "parsing"
    /\ UNCHANGED <<inspector, files, globs, main_path, sshd_config, exception,
                   results,
                   siblings>>

\* the body of "if directive_type == 'match':", flushed and crit being the
\* outcomes of closing the open block and of reading the new criterion
OpenBlock(f, flushed, crit) ==
    IF flushed.raised THEN Raise("TypeError")
    ELSE IF crit.raised THEN Raise("IndexError")
    ELSE Continue(SetTop([f EXCEPT
             !.match_blocks = flushed.match_blocks,
             !.current_match_criteria = Some(crit.criteria),
             !.current_match_lines = <<>>,
             !.i = f.i + 1]))

\* a Match line: the open block is closed, a new one opened
MatchLine ==
    /\ pc = "parsing"
    /\ AtLine(Top)
    /\ _get_directive_type(Top.config_lines[Top.i]) = "match"
    /\ OpenBlock(Top, FlushBlock(inspector, Top),
                 MatchCriteria(inspector, Top.config_lines[Top.i]))

\* mutant of InMatch: the test of "if current_match_criteria:" instead
InMatch_Truthy(f) == f.current_match_criteria # None /\ f.current_match_criteria[1] # ""

\* "if current_match_criteria is not None:" -- a Match line has been met
InMatch(f) == f.current_match_criteria # None

\* a line after a Match line: kept for the block
MatchBodyLine ==
    /\ pc = "parsing"
    /\ AtLine(Top)
    /\ _get_directive_type(Top.config_lines[Top.i]) # "match"
    /\ InMatch(Top)
    /\ Continue(SetTop([Top EXCEPT
           !.current_match_lines = Append(@, Top.config_lines[Top.i]),
           !.i = @ + 1]))

\* only ssh.py sends an Include line to _handle_include_directive
HandlesInclude(insp) == insp = "ssh"

\* the line types that reach the global directive handler
IsGlobalType(insp, type) ==
    type # "match" /\ ~(type = "include" /\ HandlesInclude(insp))

\* the step after _handle_global_directive, r being its outcome
GlobalStored(r) ==
    IF r.raised THEN Raise("TypeError")
    ELSE Continue(SetTop([Top EXCEPT !.parsed_config = r.parsed_config,
                                     !.i = @ + 1]))

\* a global directive
GlobalDirective ==
    /\ pc = "parsing"
    /\ AtLine(Top)
    /\ ~InMatch(Top)
    /\ IsGlobalType(inspector, _get_directive_type(Top.config_lines[Top.i]))
    /\ GlobalStored(_handle_global_directive(inspector, Top.config_lines[Top.i],
                                             Top.parsed_config))

\* the pattern of an Include line
IncludePattern(line) ==
    LET parts == Split(line, 1) IN
    IF Len(parts) > 1 THEN Str(Strip(parts[2])) ELSE ""

\* mutant of _handle_include_directive: the pattern is recorded under
\* "Include" whether the key is set or not
_handle_include_directive_Overwrite(f, include_pattern) ==
    [f EXCEPT
        !.parsed_config = DictSet(@, "Include", StrVal(include_pattern)),
        !.inc = Some([pattern  |-> include_pattern,
                      paths    |-> Glob(include_pattern),
                      j        |-> 1,
                      combined |-> EmptyTree])]

\* _handle_include_directive up to the loop of _parse_included_files: the
\* pattern is recorded under "Include" unless that key is set, and globbed
_handle_include_directive(f, include_pattern) ==
    [f EXCEPT
        !.parsed_config = DictSetDefault(@, "Include", StrVal(include_pattern)),
        !.inc = Some([pattern  |-> include_pattern,
                      paths    |-> Glob(include_pattern),
                      j        |-> 1,
                      combined |-> EmptyTree])]

\* an Include line in the global scope of ssh.py
IncludeLine ==
    /\ pc = "parsing"
    /\ AtLine(Top)
    /\ ~InMatch(Top)
    /\ _get_directive_type(Top.config_lines[Top.i]) = "include"
    /\ HandlesInclude(inspector)
    /\ Continue(SetTop(_handle_include_directive(Top,
                           IncludePattern(Top.config_lines[Top.i]))))

\* the number of nested calls of _parse_sshd_config_lines the interpreter's
\* call stack admits.  CPython raises RecursionError at a depth of
\* sys.getrecursionlimit() frames (1000 by default, three frames for each
\* level of inclusion); the model keeps the mechanism at a small depth
RecursionLimit == 3

\* the body of the loop of _parse_included_files for one matched path
ParseIncluded(file_path) ==
    IF ~IsFile(file_path)
    THEN Continue(SetTop([Top EXCEPT !.inc[1].j = @ + 1]))
    ELSE IF Len(stack) >= RecursionLimit
    THEN Raise("RecursionError")
    ELSE /\ reads' = Append(reads, file_path)
         /\ stack' = Append(stack,
                NewFrame(file_path, cleanse_lines(read_lines(file_path))))
         /\ UNCHANGED <<inspector, files, globs, main_path, pc, sshd_config,
                        config_file_paths, exception, results,
                        siblings>>

\* one turn of the loop of _parse_included_files: a path that is no file is
\* skipped, a file is read, cleansed and parsed
IncludedFile ==
    /\ pc = "parsing"
    /\ Top.inc # None
    /\ Top.inc[1].j <= Len(Top.inc[1].paths)
    /\ ParseIncluded(Top.inc[1].paths[Top.inc[1].j])

\* what _parse_sshd_config_lines returns, flushed being the outcome of
\* closing the open block
Returned(parsed_config, flushed) ==
    [raised |-> flushed.raised,
     tree   |-> AttachMatch(parsed_config, flushed.match_blocks)]

\* the end of _parse_sshd_config_lines: the open block is flushed and the
\* Match list attached
ParseResult(insp, f) == Returned(f.parsed_config, FlushBlock(insp, f))

\* d1 completed by the entries of d2 whose key d1 lacks
MergeFirstWins(d1, d2) ==
    [k \in DOMAIN d1 \cup DOMAIN d2 |-> IF k \in DOMAIN d1 THEN d1[k] ELSE d2[k]]

\* mutant of ExtendMatch: a block whose criterion the combined list holds
\* is not added again
ExtendMatch_Dedup(combined_match, file_match) ==
    IF file_match # None
    THEN Some((IF combined_match # None THEN combined_match[1] ELSE <<>>)
              \o SelectSeq(file_match[1],
                     LAMBDA b : combined_match = None
                                \/ \A h \in 1..Len(combined_match[1]) :
                                      combined_match[1][h].criterium # b.criterium))
    ELSE combined_match

\* combined_config.setdefault("Match", []).extend(value) for the "Match"
\* key of a parsed file
ExtendMatch(combined_match, file_match) ==
    IF file_match # None
    THEN Some((IF combined_match # None THEN combined_match[1] ELSE <<>>)
              \o file_match[1])
    ELSE combined_match

\* mutant of CombineIncluded: the keys of the later file overwrite
CombineIncluded_LaterWins(combined, parsed_file_config) ==
    Tree(MergeFirstWins(parsed_file_config.config, combined.config),
         ExtendMatch(combined.Match, parsed_file_config.Match))

\* _parse_included_files, after the parse of one file: its Match blocks
\* extend the combined list, its other keys are added unless present
CombineIncluded(combined, parsed_file_config) ==
    Tree(MergeFirstWins(combined.config, parsed_file_config.config),
         ExtendMatch(combined.Match, parsed_file_config.Match))

\* the caller's frame takes what the parse of an included file returned
ReturnInto(parent, r) ==
    IF r.raised THEN Raise("TypeError")
    ELSE Continue(Append(SubSeq(stack, 1, Len(stack) - 2),
             [parent EXCEPT
                 !.inc[1].combined = CombineIncluded(@, r.tree),
                 !.inc[1].j = @ + 1]))

\* the parse of an included file returns into the loop of
\* _parse_included_files of the frame below
ReturnToInclude ==
    /\ pc = "parsing"
    /\ Len(stack) > 1
    /\ Top.inc = None
    /\ Top.i > Len(Top.config_lines)
    /\ ReturnInto(stack[Len(stack) - 1], ParseResult(inspector, Top))

\* mutant of MergeIncluded: the included keys overwrite those of the parent
MergeIncluded_Overwrite(f, included_data) ==
    [f EXCEPT
        !.match_blocks = IF included_data.Match # None
                         THEN @ \o included_data.Match[1] ELSE @,
        !.parsed_config = MergeFirstWins(included_data.config, @)]

\* _handle_include_directive, after _parse_included_files returned: the
\* included Match blocks extend match_blocks, the other keys are added to
\* parsed_config unless present
MergeIncluded(f, included_data) ==
    [f EXCEPT
        !.match_blocks = IF included_data.Match # None
                         THEN @ \o included_data.Match[1] ELSE @,
        !.parsed_config = MergeFirstWins(@, included_data.config)]

\* the loop of _parse_included_files is over
IncludeDone ==
    /\ pc = "parsing"
    /\ Top.inc # None
    /\ Top.inc[1].j > Len(Top.inc[1].paths)
    /\ Continue(SetTop([MergeIncluded(Top, Top.inc[1].combined) EXCEPT
                            !.inc = None, !.i = @ + 1]))

\* _load_and_parse_sshd_config stores what the parse of the main file
\* returned, and __init__ sets the three result attributes to {}
Loaded(r) ==
    IF r.raised THEN Raise("TypeError")
    ELSE /\ sshd_config' = r.tree
         /\ pc' = "done"
         /\ stack' = <<>>
         /\ matching_config' = EmptyTree
         /\ missing_from_actual' = EmptyTree
         /\ extra_in_actual' = EmptyTree
         /\ UNCHANGED <<inspector, files, globs, main_path,
                        config_file_paths, reads, exception, passed,
                        siblings>>

\* the parse of the main file returns: _sshd_config is set and the
\* constructor returns
Finish ==
    /\ pc = "parsing"
    /\ Len(stack) = 1
    /\ Top.inc = None
    /\ Top.i > Len(Top.config_lines)
    /\ Loaded(ParseResult(inspector, Top))

(***************************************************************************)
(* SSHDConfigComparator and SSHDInspector.compare_to (sshd.py).  A tree is *)
(* the record Tree(config, Match); the flat keys of a dictionary are those *)
(* of its field config, its "Match" entry is the field Match.              *)
(***************************************************************************)

\* Python's == on two values: an int and a bool are equal when they are
\* the same number (1 == True, 0 == False); None equals only None, a str
\* only the same str
PyEq(a, b) ==
    IF a.t \in {"int", "bool"} /\ b.t \in {"int", "bool"} THEN a.n = b.n ELSE a = b

\* mutant of MatchingKeys: the key Include is passed over
MatchingKeys_NoInclude(actual, target) ==
    {k \in DOMAIN target \ {"Include"} :
        k \in DOMAIN actual /\ PyEq(actual[k], target[k])}

\* the keys of target that compare puts into matching_config
MatchingKeys(actual, target) ==
    {k \in DOMAIN target : k \in DOMAIN actual /\ PyEq(actual[k], target[k])}

\* the keys of target that compare puts into missing_from_actual
MissingKeys(actual, target) ==
    {k \in DOMAIN target : k \notin DOMAIN actual \/ ~PyEq(actual[k], target[k])}

\* the keys of actual that compare puts into extra_in_actual, in its first
\* loop (unequal values) and in its second (keys target lacks)
ExtraKeys(actual, target) ==
    {k \in DOMAIN actual : k \notin DOMAIN target \/ ~PyEq(actual[k], target[k])}

\* d.get("Match", [])
MatchList(tree) == IF tree.Match = None THEN <<>> ELSE tree.Match[1]

\* mutant of MatchesMap: of the blocks of one criterion the first one stays
MatchesMap_FirstWins(matches) ==
    [c \in {matches[i].criterium : i \in DOMAIN matches} |->
        matches[CHOOSE i \in DOMAIN matches :
                   /\ matches[i].criterium = c
                   /\ \A j \in DOMAIN matches : j < i => matches[j].criterium # c].settings]

\* {block["criterium"]: block["settings"] for block in matches}: of the
\* blocks of one criterion the last one stays
MatchesMap(matches) ==
    [c \in {matches[i].criterium : i \in DOMAIN matches} |->
        matches[CHOOSE i \in DOMAIN matches :
                   /\ matches[i].criterium = c
                   /\ \A j \in DOMAIN matches : j > i => matches[j].criterium # c].settings]

\* matches_map.get(criterium), through "x.keys() if x else []" and
\* "x.get(key) if x else None": no settings and empty settings are alike
SettingsOf(matches_map, criterium) ==
    IF criterium \in DOMAIN matches_map THEN matches_map[criterium] ELSE EmptyDict

\* settings.get(setting_key)
Get(settings, setting_key) ==
    IF setting_key \in DOMAIN settings THEN settings[setting_key] ELSE NoneVal

\* current_matched_settings for one criterion
MatchedSettings(actual_settings, target_settings) ==
    [k \in {k \in DOMAIN actual_settings \cup DOMAIN target_settings :
               /\ PyEq(Get(actual_settings, k), Get(target_settings, k))
               /\ Get(actual_settings, k) # NoneVal}
        |-> Get(actual_settings, k)]

\* mutant of MissingSettings: the actual value is reported as missing
MissingSettings_ActualValue(actual_settings, target_settings) ==
    [k \in {k \in DOMAIN actual_settings \cup DOMAIN target_settings :
               /\ ~PyEq(Get(actual_settings, k), Get(target_settings, k))
               /\ Get(target_settings, k) # NoneVal}
        |-> Get(actual_settings, k)]

\* current_missing_settings for one criterion
MissingSettings(actual_settings, target_settings) ==
    [k \in {k \in DOMAIN actual_settings \cup DOMAIN target_settings :
               /\ ~PyEq(Get(actual_settings, k), Get(target_settings, k))
               /\ Get(target_settings, k) # NoneVal}
        |-> Get(target_settings, k)]

\* current_extra_settings for one criterion
ExtraSettings(actual_settings, target_settings) ==
    [k \in {k \in DOMAIN actual_settings \cup DOMAIN target_settings :
               /\ ~PyEq(Get(actual_settings, k), Get(target_settings, k))
               /\ Get(actual_settings, k) # NoneVal}
        |-> Get(actual_settings, k)]

\* mutant of BlocksOf: a block is appended whatever its settings
BlocksOf_KeepEmpty(order, settings) ==
    [i \in 1..Len(order) |-> [criterium |-> order[i], settings |-> settings[order[i]]]]

\* the blocks appended to one of the three lists of
\* _compare_match_block_lists: one per criterion, in the order in which the
\* set all_criteria is iterated, unless its settings are empty
BlocksOf(order, settings) ==
    SelectSeq([i \in 1..Len(order) |->
                  [criterium |-> order[i], settings |-> settings[order[i]]]],
              LAMBDA block : DOMAIN block.settings # {})

\* all_criteria
AllCriteria(actual_matches, target_matches) ==
    DOMAIN MatchesMap(actual_matches) \cup DOMAIN MatchesMap(target_matches)

\* the orders in which Python may iterate the set S
Orders(S) ==
    {order \in [1..Cardinality(S) -> S] :
        \A i, j \in 1..Cardinality(S) : i # j => order[i] # order[j]}

\* SSHDConfigComparator._compare_match_block_lists, all_criteria being
\* iterated in the order given
_compare_match_block_lists(actual_matches, target_matches, order) ==
    [matched |-> BlocksOf(order,
                    [criterium \in AllCriteria(actual_matches, target_matches) |->
                        MatchedSettings(SettingsOf(MatchesMap(actual_matches), criterium),
                                        SettingsOf(MatchesMap(target_matches), criterium))]),
     missing |-> BlocksOf(order,
                    [criterium \in AllCriteria(actual_matches, target_matches) |->
                        MissingSettings(SettingsOf(MatchesMap(actual_matches), criterium),
                                        SettingsOf(MatchesMap(target_matches), criterium))]),
     extra   |-> BlocksOf(order,
                    [criterium \in AllCriteria(actual_matches, target_matches) |->
                        ExtraSettings(SettingsOf(MatchesMap(actual_matches), criterium),
                                      SettingsOf(MatchesMap(target_matches), criterium))])]

\* the three dictionaries compare returns, blocks being what
\* _compare_match_block_lists returned
Compared(actual, target, blocks) ==
    [matching |-> AttachMatch([k \in MatchingKeys(actual, target) |-> target[k]],
                              blocks.matched),
     missing  |-> AttachMatch([k \in MissingKeys(actual, target) |-> target[k]],
                              blocks.missing),
     extra    |-> AttachMatch([k \in ExtraKeys(actual, target) |-> actual[k]],
                              blocks.extra)]

\* SSHDConfigComparator.compare
compare(actual_config, target_sshd_config, order) ==
    Compared(actual_config.config, target_sshd_config.config,
             _compare_match_block_lists(MatchList(actual_config),
                                        MatchList(target_sshd_config), order))

\* mutant of Assign: the dictionaries returned update the result attributes
\* of the call before
Assign_Update(r, target_sshd_config) ==
    /\ matching_config' = Tree(r.matching.config @@ matching_config.config,
                               r.matching.Match)
    /\ missing_from_actual' = Tree(r.missing.config @@ missing_from_actual.config,
                                   r.missing.Match)
    /\ extra_in_actual' = Tree(r.extra.config @@ extra_in_actual.config,
                               r.extra.Match)
    /\ passed' = Append(passed, target_sshd_config)
    /\ UNCHANGED <<inspector, files, globs, main_path, pc, stack, sshd_config,
                   config_file_paths, reads, exception,
                   siblings>>

\* compare_to assigns the three dictionaries returned
Assign(r, target_sshd_config) ==
    /\ matching_config' = r.matching
    /\ missing_from_actual' = r.missing
    /\ extra_in_actual' = r.extra
    /\ passed' = Append(passed, target_sshd_config)
    /\ UNCHANGED <<inspector, files, globs, main_path, pc, stack, sshd_config,
                   config_file_paths, reads, exception,
                   siblings>>

\* SSHDInspector.compare_to with a target tree of the set given
compare_to(target_trees) ==
    /\ pc = "done"
    /\ inspector = "sshd"
    /\ \E target_sshd_config \in target_trees :
          \E order \in Orders(AllCriteria(MatchList(sshd_config),
                                          MatchList(target_sshd_config))) :
              Assign(compare(sshd_config, target_sshd_config, order),
                     target_sshd_config)

(***************************************************************************)
(* Inputs: configuration lines, files and glob results                     *)
(***************************************************************************)

\* longest main configuration file, in lines
MaxLines == 3

L_A1        == <<"A", " ", "1">>                               \* A 1
L_A2        == <<"A", " ", "2">>                               \* A 2
L_Bno       == <<"B", " ", "n", "o", "\n">>                    \* B no
L_MatchU    == <<"M", "a", "t", "c", "h", " ", "u">>           \* Match u
L_matchV    == <<" ", "m", "a", "t", "c", "h", " ", " ", "v", " ", "\n">>
L_Match     == <<"M", "a", "t", "c", "h", "\n">>               \* Match
L_IncludeP  == <<"I", "n", "c", "l", "u", "d", "e", " ", "p">> \* Include p
L_Subsystem == <<"S", "u", "b", "s", "y", "s", "t", "e", "m", " ", "s">>
L_AcceptEnv == <<"A", "c", "c", "e", "p", "t", "E", "n", "v", "\n">>
L_Comment   == <<"#", " ", "A", " ", "9", "\n">>               \* # A 9
L_Blank     == <<" ", "\n">>
L_A7        == <<"A", " ", "7", "\n">>                         \* A 7
L_C1        == <<"C", " ", "1", "\n">>                         \* C 1
L_MatchW    == <<"M", "a", "t", "c", "h", " ", "w", "\n">>     \* Match w
L_D1        == <<"D", " ", "1", "\n">>                         \* D 1
L_A3        == <<"A", " ", "3", "\n">>                         \* A 3
L_A5        == <<"A", " ", "5", "\n">>                         \* A 5
L_E1        == <<"E", " ", "1", "\n">>                         \* E 1
L_IncludeQ  == <<"i", "n", "c", "l", "u", "d", "e", " ", "q", "\n">>

\* the lines a main configuration file is made of
MainLines ==
    {L_A1, L_A2, L_Bno, L_MatchU, L_matchV, L_Match, L_IncludeP,
     L_Subsystem, L_AcceptEnv}

\* all sequences over S of length at most n
SeqsUpTo(S, n) == UNION {[1..k -> S] : k \in 0..n}

File(lines) == [kind |-> "file", lines |-> lines]

\* the file the pattern p matches beside every main file
IncludedConf == <<L_Comment, L_A7, L_Blank, L_C1, L_MatchW, L_D1>>

\* a main file of any content, or a main path that cannot be read
MainFiles ==
    {File(lines) : lines \in SeqsUpTo(MainLines, MaxLines)}
    \cup {[kind |-> k, lines |-> <<L_A1>>] : k \in {"dir", "missing", "unreadable"}}

\* the object is no SysctlInspector and no PamLimits
NoSiblings ==
    /\ sysctl_config = <<>>
    /\ matching = <<>>
    /\ actual_limits_config = <<>>
    /\ matching_limits = <<>>

Init ==
    /\ inspector \in {"sshd", "ssh"}
    /\ main_path = "sshd_config"
    /\ \E m \in MainFiles :
          files = ("sshd_config" :> m) @@ ("f1.conf" :> File(IncludedConf))
    /\ globs = ("p" :> <<"f1.conf">>)
    /\ pc = "init"
    /\ stack = <<>>
    /\ sshd_config = EmptyTree
    /\ config_file_paths = <<>>
    /\ reads = <<>>
    /\ exception = ""
    /\ matching_config = EmptyTree
    /\ missing_from_actual = EmptyTree
    /\ extra_in_actual = EmptyTree
    /\ passed = <<>>
    /\ NoSiblings

Next ==
    \/ Construct
    \/ MatchLine
    \/ MatchBodyLine
    \/ GlobalDirective
    \/ IncludeLine
    \/ IncludedFile
    \/ ReturnToInclude
    \/ IncludeDone
    \/ Finish

Spec == Init /\ [][Next]_vars

(***************************************************************************)
(* Inputs for Include: a main file that includes the pattern p, which      *)
(* matches f1.conf and f2.conf (and paths that are no readable file) in    *)
(* either order or nothing; f1.conf may include the pattern q, which       *)
(* matches f3.conf.                                                        *)
(***************************************************************************)

\* longest included file f1.conf, in lines; the main file has one line more
MaxIncLines == 2

IncMainLines == {L_A1, L_IncludeP, L_MatchU}

IncFileLines == {L_A2, L_MatchW, L_IncludeQ}

\* what glob.glob may return for the pattern p
GlobResults ==
    {<<"f1.conf", "f2.conf">>,
     <<"f2.conf", "conf.d", "locked.conf", "gone.conf", "f1.conf">>,
     <<>>}

\* the files beside the main file m, f1.conf with the lines c
FileSystem(m, c) ==
    ("sshd_config" :> m)
    @@ ("f1.conf" :> File(c))
    @@ ("f2.conf" :> File(<<L_A3, L_C1, L_Comment, L_MatchW, L_D1>>))
    @@ ("f3.conf" :> File(<<L_A5, L_E1>>))
    @@ ("conf.d" :> [kind |-> "dir", lines |-> <<>>])
    @@ ("locked.conf" :> [kind |-> "unreadable", lines |-> <<L_A7>>])

InitInc ==
    /\ main_path = "sshd_config"
    /\ \/ /\ inspector = "ssh"
          /\ \E m \in SeqsUpTo(IncMainLines, MaxIncLines + 1),
                c \in SeqsUpTo(IncFileLines, MaxIncLines),
                g \in GlobResults :
                /\ files = FileSystem(File(m), c)
                /\ globs = ("p" :> g) @@ ("q" :> <<"f3.conf">>)
       \/ /\ inspector = "sshd"
          /\ \E m \in SeqsUpTo(IncMainLines, MaxIncLines + 1) :
                files = FileSystem(File(m), <<L_A2, L_MatchW>>)
          /\ globs = ("p" :> <<"f1.conf", "f2.conf">>) @@ ("q" :> <<"f3.conf">>)
       \/ /\ inspector \in {"sshd", "ssh"}
          /\ \E k \in {"dir", "missing", "unreadable"} :
                files = FileSystem([kind |-> k, lines |-> <<L_A1>>], <<L_A2>>)
          /\ globs = ("p" :> <<"f1.conf", "f2.conf">>) @@ ("q" :> <<"f3.conf">>)
    /\ pc = "init"
    /\ stack = <<>>
    /\ sshd_config = EmptyTree
    /\ config_file_paths = <<>>
    /\ reads = <<>>
    /\ exception = ""
    /\ matching_config = EmptyTree
    /\ missing_from_actual = EmptyTree
    /\ extra_in_actual = EmptyTree
    /\ passed = <<>>
    /\ NoSiblings

SpecInc == InitInc /\ [][Next]_vars

(***************************************************************************)
(* Inputs for compare_to: an SSHDInspector built from a main file, and the *)
(* target trees its caller passes                                          *)
(***************************************************************************)

\* longest main file of an inspector that is compared, in lines
MaxCmpLines == 3

\* most calls of compare_to on one inspector
MaxCalls == 2

L_Ayes == <<"A", " ", "y", "e", "s", "\n">>                    \* A yes
L_K    == <<"K", "\n">>                                        \* K

CmpLines == {L_A1, L_Ayes, L_Bno, L_K, L_MatchU, L_matchV, L_IncludeP}

\* the dictionaries over the keys of S whose values are drawn from vals[k]
DictsOver(S, vals) ==
    UNION {[K -> UNION {vals[k] : k \in K}] : K \in SUBSET S}

\* the flat parts of the target trees
TargetConfigs ==
    {d \in DictsOver({"A", "Include"},
                     [k \in {"A", "Include"} |->
                         IF k = "A"
                         THEN {IntVal(1), BoolVal(TRUE), StrVal("x"), NoneVal}
                         ELSE {StrVal("p"), StrVal("q")}]) :
        \A k \in DOMAIN d : (d[k].t = "str" /\ d[k].s \in {"p", "q"}) <=> k = "Include"}
    \cup {d \in DictsOver({"B", "K"},
                          [k \in {"B", "K"} |->
                              IF k = "B" THEN {IntVal(0), BoolVal(FALSE)}
                              ELSE {NoneVal}]) :
             \A k \in DOMAIN d : d[k] = NoneVal <=> k = "K"}

\* the Match blocks of the target trees
TargetBlocks ==
    {[criterium |-> c, settings |-> d] :
        c \in {"u", "v"},
        d \in {EmptyDict, "A" :> IntVal(1), "A" :> BoolVal(TRUE), "A" :> StrVal("x")}}
    \cup {[criterium |-> "u", settings |-> "K" :> NoneVal]}

\* the target trees: any flat part without Match list, and any Match list of
\* at most two blocks without flat part
TargetTrees ==
    {Tree(d, None) : d \in TargetConfigs}
    \cup {Tree(EmptyDict, Some(<<>>))}
    \cup {Tree(EmptyDict, Some(<<b>>)) : b \in TargetBlocks}
    \cup {Tree(EmptyDict, Some(<<b, c>>)) : b, c \in TargetBlocks}

\* the target trees of repeated calls
FewTargets ==
    {Tree("A" :> IntVal(1), None),
     Tree("A" :> StrVal("x"), Some(<<[criterium |-> "u", settings |-> "A" :> IntVal(1)]>>)),
     Tree("K" :> NoneVal, Some(<<[criterium |-> "v", settings |-> "A" :> BoolVal(TRUE)]>>))}

InitCmp ==
    /\ inspector = "sshd"
    /\ main_path = "sshd_config"
    /\ \E lines \in SeqsUpTo(CmpLines, MaxCmpLines) :
          files = ("sshd_config" :> File(lines)) @@ ("f1.conf" :> File(IncludedConf))
    /\ globs = ("p" :> <<"f1.conf">>)
    /\ pc = "init"
    /\ stack = <<>>
    /\ sshd_config = EmptyTree
    /\ config_file_paths = <<>>
    /\ reads = <<>>
    /\ exception = ""
    /\ matching_config = EmptyTree
    /\ missing_from_actual = EmptyTree
    /\ extra_in_actual = EmptyTree
    /\ passed = <<>>
    /\ NoSiblings

\* one call of compare_to, with any target tree or with the tree of the
\* inspector itself
CompareOnce == passed = <<>> /\ compare_to(TargetTrees \cup {sshd_config})

NextCmp ==
    \/ Construct
    \/ MatchLine
    \/ MatchBodyLine
    \/ GlobalDirective
    \/ Finish
    \/ CompareOnce

SpecCmp == InitCmp /\ [][NextCmp]_vars

\* a further call of compare_to
CompareAgain == Len(passed) < MaxCalls /\ compare_to(FewTargets)

NextCalls ==
    \/ Construct
    \/ MatchLine
    \/ MatchBodyLine
    \/ GlobalDirective
    \/ Finish
    \/ CompareAgain

SpecCalls == InitCmp /\ [][NextCalls]_vars

(***************************************************************************)
(* Directive lines of any value text: a main file that holds one directive *)
(* line, in global scope or as the only line of a Match block.  The line   *)
(* is a directive word followed by a blank and by any text over ValChars   *)
(* of at most MaxValLen characters (no text: a line of a single token).    *)
(***************************************************************************)

MaxValLen == 3

\* the characters a value is written with
ValChars == {"0", "1", "-", "+", "_", "\"", " ", "y", "e", "s", "N", "o"}

W_Kk        == <<"K", "k">>
W_Subsystem == <<"S", "u", "b", "s", "y", "s", "t", "e", "m">>
W_subsystem == <<"s", "u", "b", "s", "y", "s", "t", "e", "m">>
W_AcceptEnv == <<"A", "c", "c", "e", "p", "t", "E", "n", "v">>
W_acceptenv == <<"a", "c", "c", "e", "p", "t", "e", "n", "v">>

\* the directive words of the lines
ValWords == {W_Kk, W_Subsystem, W_subsystem, W_AcceptEnv, W_acceptenv}

\* the line a directive word and a value text make
ValLine(word, text) == word \o <<" ">> \o text

ValLines ==
    {ValLine(word, text) : word \in ValWords, text \in SeqsUpTo(ValChars, MaxValLen)}

InitVal ==
    /\ inspector \in {"sshd", "ssh"}
    /\ main_path = "sshd_config"
    /\ \E line \in ValLines : \E lines \in {<<line>>, <<L_MatchU, line>>} :
          files = ("sshd_config" :> File(lines)) @@ ("f1.conf" :> File(IncludedConf))
    /\ globs = ("p" :> <<"f1.conf">>)
    /\ pc = "init"
    /\ stack = <<>>
    /\ sshd_config = EmptyTree
    /\ config_file_paths = <<>>
    /\ reads = <<>>
    /\ exception = ""
    /\ matching_config = EmptyTree
    /\ missing_from_actual = EmptyTree
    /\ extra_in_actual = EmptyTree
    /\ passed = <<>>
    /\ NoSiblings

NextVal ==
    \/ Construct
    \/ MatchLine
    \/ MatchBodyLine
    \/ GlobalDirective
    \/ Finish

SpecVal == InitVal /\ [][NextVal]_vars

(***************************************************************************)
(* Include graphs of any shape: the main file and the files c1.conf ..     *)
(* c4.conf, each with its own Include pattern.  A file holds no Include    *)
(* line, an Include line in its global scope, or one inside a Match block; *)
(* its pattern matches the file itself, the next file or the main file,    *)
(* and the pattern of the main file may match two files.                   *)
(***************************************************************************)

CycPaths == <<"sshd_config", "c1.conf", "c2.conf", "c3.conf", "c4.conf">>

\* the Include line of the i-th file: "Include g<i>"
L_IncludeG(i) ==
    <<"I", "n", "c", "l", "u", "d", "e", " ", "g", <<"0", "1", "2", "3", "4">>[i]>>

\* the pattern of the i-th file
CycPattern(i) == <<"g0", "g1", "g2", "g3", "g4">>[i]

\* the contents of the i-th file with an Include line
CycIncluding(i) == {<<L_A1, L_IncludeG(i), L_Bno>>, <<L_MatchU, L_IncludeG(i)>>}

\* what the pattern of the i-th file may match: the file itself, the next
\* file, the main file, and for the main file two files
CycGlobs(i) ==
    {<<CycPaths[i]>>, <<"sshd_config">>}
    \cup (IF i < Len(CycPaths) THEN {<<CycPaths[i + 1]>>} ELSE {})
    \cup (IF i = 1 THEN {<<"c1.conf", "c2.conf">>} ELSE {})

\* contents and matches of the i-th file
CycChoices(i) ==
    {[lines |-> <<L_A1>>, glob |-> <<>>]}
    \cup {[lines |-> l, glob |-> g] : l \in CycIncluding(i), g \in CycGlobs(i)}

\* the file system and the glob results the choices given make
CycFiles(choice) ==
    [path \in {CycPaths[i] : i \in 1..Len(CycPaths)} |->
        File(choice[CHOOSE i \in 1..Len(CycPaths) : CycPaths[i] = path].lines)]

CycGlobResults(choice) ==
    [pattern \in {CycPattern(i) : i \in 1..Len(CycPaths)} |->
        choice[CHOOSE i \in 1..Len(CycPaths) : CycPattern(i) = pattern].glob]

InitCyc ==
    /\ inspector = "ssh"
    /\ main_path = "sshd_config"
    /\ \E m \in CycChoices(1), c1 \in CycChoices(2), c2 \in CycChoices(3),
          c3 \in CycChoices(4), c4 \in CycChoices(5) :
          /\ files = CycFiles(<<m, c1, c2, c3, c4>>)
          /\ globs = CycGlobResults(<<m, c1, c2, c3, c4>>)
    /\ pc = "init"
    /\ stack = <<>>
    /\ sshd_config = EmptyTree
    /\ config_file_paths = <<>>
    /\ reads = <<>>
    /\ exception = ""
    /\ matching_config = EmptyTree
    /\ missing_from_actual = EmptyTree
    /\ extra_in_actual = EmptyTree
    /\ passed = <<>>
    /\ NoSiblings

SpecCyc == InitCyc /\ [][Next]_vars

(***************************************************************************)
(* SysctlInspector and SysctlConfig (sysctl.py).  The object is built from *)
(* the main file and the files of the drop-in directory; sysctl_config     *)
(* maps each file found to its dictionary, and matching,                   *)
(* missing_from_actual and extra_in_actual map file names to dictionaries. *)
(***************************************************************************)

\* the elements of a list
Elements(list) == {list[i] : i \in 1..Len(list)}

\* the position of the first "=" of a line, 0 if it has none
EqPos(cs) ==
    IF \E i \in 1..Len(cs) : cs[i] = "="
    THEN CHOOSE i \in 1..Len(cs) : cs[i] = "=" /\ \A h \in 1..(i - 1) : cs[h] # "="
    ELSE 0

\* line.split('=', maxsplit=1)
SplitEq(cs) ==
    IF EqPos(cs) = 0 THEN <<cs>>
    ELSE <<SubSeq(cs, 1, EqPos(cs) - 1), SubSeq(cs, EqPos(cs) + 1, Len(cs))>>

\* SysctlConfig._cleanse_lines: the lines that are neither blank nor
\* comments ("#" or ";"), stripped
_cleanse_lines(raw_lines) ==
    LET kept == SelectSeq(raw_lines,
                    LAMBDA line : Strip(line) # <<>> /\ Head(Strip(line)) \notin {"#", ";"})
    IN  [i \in 1..Len(kept) |-> Strip(kept[i])]

RECURSIVE _parse_config_lines(_, _)
\* SysctlConfig._parse_config_lines: key = value, a later line overwrites
\* an earlier one, a line without "=" is passed over
_parse_config_lines(cleansed_lines, parsed_config) ==
    IF cleansed_lines = <<>> THEN parsed_config
    ELSE _parse_config_lines(Tail(cleansed_lines),
             IF Len(SplitEq(RStripSet(Head(cleansed_lines), Whitespace))) > 1
             THEN DictSet(parsed_config,
                      Str(Strip(SplitEq(RStripSet(Head(cleansed_lines), Whitespace))[1])),
                      StrVal(Str(Strip(SplitEq(RStripSet(Head(cleansed_lines), Whitespace))[2]))))
             ELSE parsed_config)

\* SysctlConfig._parse_file (the file is one that could be opened)
_parse_file(file_path) ==
    _parse_config_lines(_cleanse_lines(FileAt(file_path).lines), EmptyDict)

\* os.listdir(directory): ok = FALSE stands for FileNotFoundError
ListDir(directory) ==
    IF FileAt(directory).kind = "dir"
    THEN [ok |-> TRUE, names |-> Glob(directory)]
    ELSE [ok |-> FALSE, names |-> <<>>]

\* os.path.join(directory, name), the directory ending with "/"
Join(directory, name) == directory \o name

\* SysctlInspector._discover_config_files
Sysctl_discover_config_files(sysctl_config_path, sysctl_d_directory) ==
    (IF IsFile(sysctl_config_path) THEN <<sysctl_config_path>> ELSE <<>>)
    \o SelectSeq([i \in 1..Len(ListDir(sysctl_d_directory).names) |->
                     Join(sysctl_d_directory, ListDir(sysctl_d_directory).names[i])],
                 IsFile)

\* SysctlInspector._parse_config_files
_parse_config_files(paths) == [file_path \in Elements(paths) |-> _parse_file(file_path)]

\* the drop-in directory of the object
SYSCTL_D_DIRECTORY == "sysctl.d/"

\* what the constructor does with the files found: open() raises for a file
\* that cannot be read (FileConfigReader.read_lines of sysctl.py has no
\* except clause), else the attributes are set
SysctlBuilt(found) ==
    IF \E i \in 1..Len(found) : FileAt(found[i]).kind = "unreadable"
    THEN Raise("PermissionError")
    ELSE /\ config_file_paths' = found
         /\ sysctl_config' = _parse_config_files(found)
         /\ matching' = EmptyDict
         /\ missing_from_actual' = EmptyDict
         /\ extra_in_actual' = EmptyDict
         /\ reads' = found
         /\ pc' = "done"
         /\ UNCHANGED <<inspector, files, globs, main_path, stack, sshd_config,
                        exception, matching_config, passed, actual_limits_config,
                        matching_limits>>

\* SysctlInspector.__init__
SysctlConstruct ==
    /\ pc = "init"
    /\ inspector = "sysctl"
    /\ SysctlBuilt(Sysctl_discover_config_files(main_path, SYSCTL_D_DIRECTORY))

\* SysctlInspector._compare: the three dictionaries for one file
_compare(actual_config, target_config) ==
    LET missing == {key \in DOMAIN target_config :
                       \/ key \notin DOMAIN actual_config
                       \/ ~PyEq(actual_config[key], target_config[key])}
    IN  [matching |-> [key \in {key \in DOMAIN target_config :
                                   /\ key \in DOMAIN actual_config
                                   /\ PyEq(actual_config[key], target_config[key])}
                          |-> target_config[key]],
         missing  |-> [key \in missing |-> target_config[key]],
         extra    |-> [key \in {key \in DOMAIN actual_config :
                                   \/ key \notin DOMAIN target_config
                                   \/ /\ ~PyEq(target_config[key], actual_config[key])
                                      /\ key \notin missing}
                          |-> actual_config[key]]]

\* config.get(filename, {})
GetFile(config, filename) ==
    IF filename \in DOMAIN config THEN config[filename] ELSE EmptyDict

\* all_filenames
AllFilenames(target_config) == DOMAIN sysctl_config \cup DOMAIN target_config

\* one of the three attributes after the loop of compare_to: the entries of
\* all_filenames are set, the others stay
Updated(attribute, target_config, part) ==
    [filename \in DOMAIN attribute \cup AllFilenames(target_config) |->
        IF filename \in AllFilenames(target_config)
        THEN _compare(GetFile(sysctl_config, filename),
                      GetFile(target_config, filename))[part]
        ELSE attribute[filename]]

\* SysctlInspector.compare_to
Sysctl_compare_to(target_config) ==
    /\ pc = "done"
    /\ inspector = "sysctl"
    /\ matching' = Updated(matching, target_config, "matching")
    /\ missing_from_actual' = Updated(missing_from_actual, target_config, "missing")
    /\ extra_in_actual' = Updated(extra_in_actual, target_config, "extra")
    /\ passed' = Append(passed, target_config)
    /\ UNCHANGED <<inspector, files, globs, main_path, pc, stack, sshd_config,
                   config_file_paths, reads, exception, matching_config,
                   sysctl_config, actual_limits_config, matching_limits>>

\* the lines of the sysctl files
Y_a1   == <<"a", "=", "1">>                                \* a=1
Y_a2   == <<" ", "a", " ", "=", " ", "2", "\n">>           \*  a = 2
Y_b1   == <<"b", "=", "1", "\n">>                          \* b=1
Y_hash == <<"#", "a", "=", "9">>                           \* #a=9
Y_semi == <<";", "b", "=", "9", "\n">>                     \* ;b=9
Y_noeq == <<"a", " ", "1">>                                \* a 1

SysctlLines == {Y_a1, Y_a2, Y_b1, Y_hash, Y_semi, Y_noeq}

MaxSysctlLines == 2

\* the main file: any content, missing or unreadable
SysctlMainFiles ==
    {File(lines) : lines \in SeqsUpTo(SysctlLines, MaxSysctlLines)}
    \cup {[kind |-> k, lines |-> <<Y_a1>>] : k \in {"missing", "unreadable"}}

\* what os.listdir gives for the drop-in directory
SysctlListings == {<<"10.conf">>, <<"10.conf", "sub">>, <<"sub", "10.conf">>, <<>>}

\* the dictionaries of a target for one file
SysctlFileTargets ==
    {EmptyDict,
     "a" :> StrVal("1"),
     "a" :> StrVal("2"),
     "a" :> IntVal(1),
     ("a" :> StrVal("1")) @@ ("b" :> StrVal("2"))}

\* the targets: one file of three (the third is no file of the system), or
\* both files of the system
SysctlTargets ==
    {[filename \in {} |-> EmptyDict]}
    \cup {filename :> d : filename \in {"sysctl.conf", "sysctl.d/10.conf", "x.conf"},
                          d \in SysctlFileTargets}
    \cup {("sysctl.conf" :> ("a" :> StrVal("2"))) @@ ("sysctl.d/10.conf" :> ("b" :> StrVal("1")))}

InitSysctl ==
    /\ inspector = "sysctl"
    /\ main_path = "sysctl.conf"
    /\ \E m \in SysctlMainFiles, c \in {<<Y_b1>>, <<Y_a1, Y_b1>>},
          k \in {"dir", "missing"}, listing \in SysctlListings :
          /\ files = ("sysctl.conf" :> m)
                     @@ ("sysctl.d/" :> [kind |-> k, lines |-> <<>>])
                     @@ ("sysctl.d/10.conf" :> File(c))
                     @@ ("sysctl.d/sub" :> [kind |-> "dir", lines |-> <<>>])
          /\ globs = ("sysctl.d/" :> listing)
    /\ pc = "init"
    /\ stack = <<>>
    /\ sshd_config = EmptyTree
    /\ config_file_paths = <<>>
    /\ reads = <<>>
    /\ exception = ""
    /\ matching_config = EmptyTree
    /\ missing_from_actual = EmptyTree
    /\ extra_in_actual = EmptyTree
    /\ passed = <<>>
    /\ NoSiblings

\* a call of compare_to by the user
SysctlCompare ==
    /\ Len(passed) < MaxCalls
    /\ \E target_config \in SysctlTargets : Sysctl_compare_to(target_config)

NextSysctl ==
    \/ SysctlConstruct
    \/ SysctlCompare

SpecSysctl == InitSysctl /\ [][NextSysctl]_vars

(***************************************************************************)
(* Inputs for several Include lines: an SSHInspector on a main file with   *)
(* Include lines of the patterns p (f1.conf, f2.conf), q (f3.conf) and of  *)
(* no pattern; f1.conf has an Include line of its own.                     *)
(***************************************************************************)

L_IncludeBare == <<"I", "n", "c", "l", "u", "d", "e", "\n">>      \* Include
L_IncludeQsp  == <<" ", "I", "N", "C", "L", "U", "D", "E", " ", " ", "q", " ", "\n">>

SeveralLines == {L_A1, L_IncludeP, L_IncludeQsp, L_IncludeBare, L_MatchU}

\* longest main file with several Include lines, in lines
MaxSeveralLines == 3

InitSeveral ==
    /\ inspector = "ssh"
    /\ main_path = "sshd_config"
    /\ \E m \in SeqsUpTo(SeveralLines, MaxSeveralLines),
          c \in {<<L_A2, L_IncludeQ>>, <<L_IncludeBare, L_MatchW, L_A2>>} :
          files = FileSystem(File(m), c)
    /\ globs = ("p" :> <<"f1.conf", "conf.d", "f2.conf">>) @@ ("q" :> <<"f3.conf">>)
    /\ pc = "init"
    /\ stack = <<>>
    /\ sshd_config = EmptyTree
    /\ config_file_paths = <<>>
    /\ reads = <<>>
    /\ exception = ""
    /\ matching_config = EmptyTree
    /\ missing_from_actual = EmptyTree
    /\ extra_in_actual = EmptyTree
    /\ passed = <<>>
    /\ NoSiblings

SpecSeveral == InitSeveral /\ [][Next]_vars

(***************************************************************************)
(* PamLimits (pam_limits.py)                                               *)
(***************************************************************************)

DEFAULT_LIMITS_CONF_PATH == "/etc/security/limits.conf"
DEFAULT_LIMITS_D_PATH == "/etc/security/limits.d/*.conf"
EXPECTED_LIMITS_FIELDS == 4

\* PamLimitEntry
PamLimitEntry(file, domain, limit_type, limit_item, value) ==
    [file |-> file, domain |-> domain, limit_type |-> limit_type,
     limit_item |-> limit_item, value |-> value]

\* PamLimits._discover_config_files
Pam_discover_config_files ==
    (IF IsFile(DEFAULT_LIMITS_CONF_PATH) THEN <<DEFAULT_LIMITS_CONF_PATH>> ELSE <<>>)
    \o Glob(DEFAULT_LIMITS_D_PATH)

\* PamLimits._read_file_content: an IOError of open() is caught and []
\* returned
_read_file_content(path) == read_lines(path)

RECURSIVE _cleanse_config_lines(_)
\* PamLimits._cleanse_config_lines: the lines that are neither blank nor
\* comments, stripped
_cleanse_config_lines(config_lines) ==
    IF config_lines = <<>> THEN <<>>
    ELSE IF Strip(Head(config_lines)) = <<>> \/ StartsWithHash(Strip(Head(config_lines)))
         THEN _cleanse_config_lines(Tail(config_lines))
         ELSE <<Strip(Head(config_lines))>> \o _cleanse_config_lines(Tail(config_lines))

\* the value of an entry: int(raw_value), or raw_value on a ValueError
LimitValue(raw_value) ==
    IF PyInt(raw_value).ok THEN IntVal(PyInt(raw_value).n) ELSE StrVal(Str(raw_value))

\* the entry made of the four parts of a line
EntryOfParts(parts, filename) ==
    PamLimitEntry(filename, Str(parts[1]), Str(parts[2]), Str(parts[3]),
                  LimitValue(parts[4]))

RECURSIVE _parse_limits_entries(_, _)
\* PamLimits._parse_limits_entries: a line that does not split into exactly
\* four parts is skipped
_parse_limits_entries(sanitized_lines, filename) ==
    IF sanitized_lines = <<>> THEN <<>>
    ELSE IF Len(Split(Head(sanitized_lines), EXPECTED_LIMITS_FIELDS)) # EXPECTED_LIMITS_FIELDS
         THEN _parse_limits_entries(Tail(sanitized_lines), filename)
         ELSE <<EntryOfParts(Split(Head(sanitized_lines), EXPECTED_LIMITS_FIELDS), filename)>>
              \o _parse_limits_entries(Tail(sanitized_lines), filename)

RECURSIVE _parse_all_config_files(_)
\* PamLimits._parse_all_config_files over the paths given
_parse_all_config_files(paths) ==
    IF paths = <<>> THEN <<>>
    ELSE _parse_limits_entries(_cleanse_config_lines(_read_file_content(Head(paths))),
                               Head(paths))
         \o _parse_all_config_files(Tail(paths))

\* PamLimits.__init__
PamConstruct ==
    /\ pc = "init"
    /\ inspector = "pam"
    /\ config_file_paths' = Pam_discover_config_files
    /\ actual_limits_config' = _parse_all_config_files(Pam_discover_config_files)
    /\ matching_limits' = <<>>
    /\ missing_from_actual' = <<>>
    /\ extra_in_actual' = <<>>
    /\ reads' = Pam_discover_config_files
    /\ pc' = "done"
    /\ UNCHANGED <<inspector, files, globs, main_path, stack, sshd_config,
                   exception, matching_config, passed, sysctl_config, matching>>

\* the characters of the strings a target gives as values
PamValueChars == {<<"1">>, <<"x">>}

\* the characters of a str
CharsOf(s) == CHOOSE cs \in PamValueChars : Str(cs) = s

\* int(d['value']); ok = FALSE stands for ValueError and TypeError
IntOf(v) ==
    IF v.t \in {"int", "bool"} THEN [ok |-> TRUE, n |-> v.n]
    ELSE IF v.t = "str" THEN PyInt(CharsOf(v.s))
    ELSE [ok |-> FALSE, n |-> 0]

\* str(d['value'])
StrOf(v) == IF v.t = "none" THEN StrVal("None") ELSE v

\* the keys a PamLimitEntry is built from
EntryKeys == {"file", "domain", "limit_type", "limit_item", "value"}

RECURSIVE _convert_dicts_to_pam_limit_entries(_)
\* PamLimits._convert_dicts_to_pam_limit_entries: a dictionary that lacks a
\* key (KeyError) is skipped
_convert_dicts_to_pam_limit_entries(data_dicts) ==
    IF data_dicts = <<>> THEN <<>>
    ELSE IF ~(EntryKeys \subseteq DOMAIN Head(data_dicts))
         THEN _convert_dicts_to_pam_limit_entries(Tail(data_dicts))
         ELSE <<PamLimitEntry(Head(data_dicts).file, Head(data_dicts).domain,
                              Head(data_dicts).limit_type, Head(data_dicts).limit_item,
                              IF IntOf(Head(data_dicts).value).ok
                              THEN IntVal(IntOf(Head(data_dicts).value).n)
                              ELSE StrOf(Head(data_dicts).value))>>
              \o _convert_dicts_to_pam_limit_entries(Tail(data_dicts))

\* the strings of the model in the order of str comparison
StrOrder ==
    <<"*", "/etc/security/limits.conf", "/etc/security/limits.d/10.conf",
      "@g", "hard", "nofile", "nproc", "soft">>

\* a < b for two str
StrLess(a, b) ==
    \E i, j \in DOMAIN StrOrder : StrOrder[i] = a /\ StrOrder[j] = b /\ i < j

\* the key of _sort_limits_data: (file, domain, limit_item, limit_type)
SortKey(x) == <<x.file, x.domain, x.limit_item, x.limit_type>>

\* a < b for two keys of _sort_limits_data
KeyLess(a, b) ==
    \E i \in 1..4 : /\ \A j \in 1..(i - 1) : a[j] = b[j]
                    /\ StrLess(a[i], b[i])

\* PamLimits._sort_limits_data(list(limits_set)): the lists sorted() can
\* return, entries of equal keys staying in the order the set iterates in
_sort_limits_data(limits_set) ==
    {order \in Orders(limits_set) :
        \A i, j \in DOMAIN order : i < j => ~KeyLess(SortKey(order[j]), SortKey(order[i]))}

\* mutant of Pam_compare_to: extra_set is the whole of actual_limits_set
Pam_compare_to_ExtraAll(target_limits_data_dicts) ==
    /\ pc = "done"
    /\ inspector = "pam"
    /\ matching_limits' \in _sort_limits_data(
           Elements(actual_limits_config)
           \cap Elements(_convert_dicts_to_pam_limit_entries(target_limits_data_dicts)))
    /\ missing_from_actual' \in _sort_limits_data(
           Elements(_convert_dicts_to_pam_limit_entries(target_limits_data_dicts))
           \ Elements(actual_limits_config))
    /\ extra_in_actual' \in _sort_limits_data(Elements(actual_limits_config))
    /\ passed' = Append(passed, target_limits_data_dicts)
    /\ UNCHANGED <<inspector, files, globs, main_path, pc, stack, sshd_config,
                   config_file_paths, reads, exception, matching_config,
                   sysctl_config, matching, actual_limits_config>>

\* PamLimits.compare_to
Pam_compare_to(target_limits_data_dicts) ==
    /\ pc = "done"
    /\ inspector = "pam"
    /\ matching_limits' \in _sort_limits_data(
           Elements(actual_limits_config)
           \cap Elements(_convert_dicts_to_pam_limit_entries(target_limits_data_dicts)))
    /\ missing_from_actual' \in _sort_limits_data(
           Elements(_convert_dicts_to_pam_limit_entries(target_limits_data_dicts))
           \ Elements(actual_limits_config))
    /\ extra_in_actual' \in _sort_limits_data(
           Elements(actual_limits_config)
           \ Elements(_convert_dicts_to_pam_limit_entries(target_limits_data_dicts)))
    /\ passed' = Append(passed, target_limits_data_dicts)
    /\ UNCHANGED <<inspector, files, globs, main_path, pc, stack, sshd_config,
                   config_file_paths, reads, exception, matching_config,
                   sysctl_config, matching, actual_limits_config>>

\* the lines of the limits files
P_n1     == <<"*", " ", "h", "a", "r", "d", " ", "n", "o", "f", "i", "l", "e", " ", "1", "\n">>
P_n2     == <<" ", "*", "\t", "h", "a", "r", "d", " ", "n", "o", "f", "i", "l", "e", " ", "0", "2">>
P_gx     == <<"@", "g", " ", "s", "o", "f", "t", " ", "n", "p", "r", "o", "c", " ", "x", "\n">>
P_hash   == <<"#", "*", " ", "h", "a", "r", "d", " ", "n", "o", "f", "i", "l", "e", " ", "1">>
P_five   == <<"*", " ", "h", "a", "r", "d", " ", "n", "o", "f", "i", "l", "e", " ", "1", " ", "2", "\n">>
P_three  == <<"*", " ", "h", "a", "r", "d", " ", "n", "o", "f", "i", "l", "e", "\n">>

PamLines == {P_n1, P_n2, P_gx, P_hash, P_five, P_three}

MaxPamLines == 1

\* the main file: any content, missing or unreadable
PamMainFiles ==
    {File(lines) : lines \in SeqsUpTo(PamLines, MaxPamLines)}
    \cup {[kind |-> k, lines |-> <<P_n1>>] : k \in {"missing", "unreadable"}}

\* the dictionaries of a target
PamTargetDicts ==
    {PamLimitEntry(DEFAULT_LIMITS_CONF_PATH, "*", "hard", "nofile", v) :
        v \in {IntVal(2), StrVal("1"), NoneVal}}
    \cup {PamLimitEntry(DEFAULT_LIMITS_CONF_PATH, "@g", "soft", "nproc", StrVal("x")),
          PamLimitEntry("/etc/security/limits.d/10.conf", "*", "hard", "nofile", IntVal(2)),
          [file |-> DEFAULT_LIMITS_CONF_PATH, domain |-> "*", limit_type |-> "hard",
           limit_item |-> "nofile"]}

MaxPamDicts == 2

\* the drop-in file and what glob.glob finds of it
PamDropIns ==
    {[lines |-> <<P_n1>>, listing |-> <<>>]}
    \cup {[lines |-> c, listing |-> <<"/etc/security/limits.d/10.conf">>] :
             c \in {<<P_n1>>, <<P_n2, P_gx>>, <<P_n1, P_gx, P_n2>>}}

\* the arguments of compare_to
PamTargets == SeqsUpTo(PamTargetDicts, MaxPamDicts)

InitPam ==
    /\ inspector = "pam"
    /\ main_path = DEFAULT_LIMITS_CONF_PATH
    /\ \E m \in PamMainFiles, d \in PamDropIns :
          /\ files = (DEFAULT_LIMITS_CONF_PATH :> m)
                     @@ ("/etc/security/limits.d/10.conf" :> File(d.lines))
          /\ globs = (DEFAULT_LIMITS_D_PATH :> d.listing)
    /\ pc = "init"
    /\ stack = <<>>
    /\ sshd_config = EmptyTree
    /\ config_file_paths = <<>>
    /\ reads = <<>>
    /\ exception = ""
    /\ matching_config = EmptyTree
    /\ missing_from_actual = EmptyTree
    /\ extra_in_actual = EmptyTree
    /\ passed = <<>>
    /\ NoSiblings

\* a call of compare_to by the user; compare_to reads the parsed entries and
\* its argument only, so one call from the constructed object shows them all
PamCompare ==
    /\ passed = <<>>
    /\ \E target \in PamTargets : Pam_compare_to(target)

NextPam ==
    \/ PamConstruct
    \/ PamCompare

SpecPam == InitPam /\ [][NextPam]_vars

(***************************************************************************)
(* Properties                                                              *)
(***************************************************************************)

\* the sanitized lines of the main file
MainConfigLines == cleanse_lines(read_lines(main_path))

\* the construction has ended, with an inspector or with an exception
Terminated == pc \in {"done", "raised"}

IsMatchLine(line) == _get_directive_type(line) = "match"

IsIncludeLine(line) == _get_directive_type(line) = "include"

Indexes(n) == [i \in 1..n |-> i]

\* the positions of the Match lines, in file order
MatchPos(lines) == SelectSeq(Indexes(Len(lines)), LAMBDA i : IsMatchLine(lines[i]))

\* the lines before the first Match line
GlobalLines(lines) ==
    IF MatchPos(lines) = <<>> THEN lines ELSE SubSeq(lines, 1, MatchPos(lines)[1] - 1)

\* the lines between the k-th Match line and the next one
BlockLines(lines, k) ==
    SubSeq(lines, MatchPos(lines)[k] + 1,
           IF k < Len(MatchPos(lines)) THEN MatchPos(lines)[k + 1] - 1 ELSE Len(lines))

\* the text of a line after its first word, trimmed
AfterFirstWord(line) ==
    Strip(SubSeq(LStripSet(line, Whitespace),
                 WordLen(LStripSet(line, Whitespace)) + 1,
                 Len(LStripSet(line, Whitespace))))

\* key and value the directive parser gives for a line ("" when it gives no key)
KeyOf(line) == _parse_directive_line(inspector, line).key
ValueOf(line) == _parse_directive_line(inspector, line).value

\* line i is the first line of lines with its key
FirstWithKey(lines, i) ==
    KeyOf(lines[i]) # "" /\ \A h \in 1..(i - 1) : KeyOf(lines[h]) # KeyOf(lines[i])

\* the key of line i is met again on a later line
KeyRepeated(lines, i) == \E j \in (i + 1)..Len(lines) : KeyOf(lines[j]) = KeyOf(lines[i])

\* the Match list of the tree built
Blocks == IF sshd_config.Match = None THEN <<>> ELSE sshd_config.Match[1]

\* every line but the Match lines gives a key
WellFormed(lines) ==
    \A i \in 1..Len(lines) : IsMatchLine(lines[i]) \/ KeyOf(lines[i]) # ""

\* every Match line names a criterion
MatchLinesHaveCriterion(lines) ==
    \A i \in 1..Len(lines) : IsMatchLine(lines[i]) => AfterFirstWord(lines[i]) # <<>>

NoIncludeLine(lines) == \A i \in 1..Len(lines) : ~IsIncludeLine(lines[i])

\* C1: SSHDInspector, global scope: a key that occurs on more than one line
\* before the first Match line has, in the tree returned, the value of the
\* first of these lines.
C1_GlobalFirstWins ==
    (pc = "done" /\ inspector = "sshd") =>
        \A i \in 1..Len(GlobalLines(MainConfigLines)) :
            (/\ FirstWithKey(GlobalLines(MainConfigLines), i)
             /\ KeyRepeated(GlobalLines(MainConfigLines), i))
            => /\ KeyOf(MainConfigLines[i]) \in DOMAIN sshd_config.config
               /\ sshd_config.config[KeyOf(MainConfigLines[i])]
                      = ValueOf(MainConfigLines[i])

\* a tree was returned for a file whose global scope defines a key twice,
\* with two values, and holds the first
C1_Witness ==
    /\ pc = "done" /\ inspector = "sshd"
    /\ \E i \in 1..Len(GlobalLines(MainConfigLines)) :
          /\ FirstWithKey(GlobalLines(MainConfigLines), i)
          /\ \E j \in (i + 1)..Len(GlobalLines(MainConfigLines)) :
                /\ KeyOf(MainConfigLines[j]) = KeyOf(MainConfigLines[i])
                /\ ValueOf(MainConfigLines[j]) # ValueOf(MainConfigLines[i])
          /\ sshd_config.config[KeyOf(MainConfigLines[i])] = ValueOf(MainConfigLines[i])

\* C2: Match scope: a key that occurs on more than one line of one Match
\* block has, in that block's settings, the value of its first occurrence;
\* each block is decided by its own lines.  (Stated for the files whose
\* Match lines and blocks correspond one to one.)
C2_MatchFirstWins ==
    (/\ pc = "done"
     /\ NoIncludeLine(MainConfigLines)
     /\ Len(Blocks) = Len(MatchPos(MainConfigLines)))
    => \A k \in 1..Len(Blocks) :
          \A i \in 1..Len(BlockLines(MainConfigLines, k)) :
              FirstWithKey(BlockLines(MainConfigLines, k), i)
              => /\ KeyOf(BlockLines(MainConfigLines, k)[i])
                        \in DOMAIN Blocks[k].settings
                 /\ Blocks[k].settings[KeyOf(BlockLines(MainConfigLines, k)[i])]
                        = ValueOf(BlockLines(MainConfigLines, k)[i])

\* C3: a file without Include lines (and without malformed directives) is
\* parsed into one block per Match line, in file order, the k-th block with
\* the trimmed text after the Match word of the k-th Match line; the Match
\* key is present iff there is a block.
C3_OneBlockPerMatchLine ==
    (/\ Terminated
     /\ FileAt(main_path).kind = "file"
     /\ NoIncludeLine(MainConfigLines)
     /\ WellFormed(MainConfigLines))
    => /\ pc = "done"
       /\ Len(Blocks) = Len(MatchPos(MainConfigLines))
       /\ \A k \in 1..Len(Blocks) :
             Blocks[k].criterium
                 = Str(AfterFirstWord(MainConfigLines[MatchPos(MainConfigLines)[k]]))
       /\ (sshd_config.Match # None) <=> (MatchPos(MainConfigLines) # <<>>)
       /\ sshd_config.Match # None => sshd_config.Match[1] # <<>>

\* C9: a file with a malformed Subsystem or AcceptEnv line (whose Match
\* lines all name a criterion) is parsed to the end: no exception leaves
\* the parser.
C9_MalformedLineSkipped ==
    (/\ Terminated
     /\ FileAt(main_path).kind = "file"
     /\ ~WellFormed(MainConfigLines)
     /\ MatchLinesHaveCriterion(MainConfigLines))
    => pc = "done"

\* the frame at depth d has met a Match line
FrameInMatch(d) == stack[d].current_match_criteria # <<>>

\* the line the frame at depth d is at is a line of a block: not a Match line
AtBlockLine(d) ==
    /\ stack[d].i <= Len(stack[d].config_lines)
    /\ ~IsMatchLine(stack[d].config_lines[stack[d].i])

\* the frame at depth d, after a Match line, stays after it: its global
\* directives are not touched, no file is read or parsed for it, and the
\* line it is at is added to the lines of the open block
C4_FrameStep(d) ==
    (FrameInMatch(d) /\ d <= Len(stack'))
    => /\ stack'[d].current_match_criteria # <<>>
       /\ stack'[d].parsed_config = stack[d].parsed_config
       /\ stack'[d].inc = <<>>
       /\ Len(stack') = d
       /\ reads' = reads
       /\ AtBlockLine(d)
          => /\ stack'[d].i = stack[d].i + 1
             /\ stack'[d].current_match_lines
                    = Append(stack[d].current_match_lines,
                             stack[d].config_lines[stack[d].i])
             /\ stack'[d].match_blocks = stack[d].match_blocks

Last(seq) == seq[Len(seq)]

\* the block built in this step from the lines of the open block, if one is
\* (none is built for an empty criterion)
BlockBuilt ==
    IF stack = <<>> \/ ~FrameInMatch(Len(stack)) \/ pc' = "raised" THEN <<>>
    ELSE IF Last(stack).current_match_criteria = <<"">> THEN <<>>
    ELSE IF pc' = "done"
         THEN (IF sshd_config'.Match = <<>> THEN <<>>
               ELSE <<Last(sshd_config'.Match[1])>>)
    ELSE IF Len(stack') = Len(stack) - 1
         THEN (IF Last(stack').inc[1].combined.Match = <<>> THEN <<>>
               ELSE <<Last(Last(stack').inc[1].combined.Match[1])>>)
    ELSE IF Len(Last(stack').match_blocks) = Len(Last(stack).match_blocks) + 1
         THEN <<Last(Last(stack').match_blocks)>>
    ELSE <<>>

\* an Include line among the lines of the block built is in its settings as
\* the key and value the directive parser gives for it (for a key the block
\* has once)
C4_IncludeIsSetting ==
    BlockBuilt # <<>>
    => \A n \in 1..Len(Last(stack).current_match_lines) :
          (/\ IsIncludeLine(Last(stack).current_match_lines[n])
           /\ KeyOf(Last(stack).current_match_lines[n]) # ""
           /\ \A m \in 1..Len(Last(stack).current_match_lines) :
                 m # n => KeyOf(Last(stack).current_match_lines[m])
                              # KeyOf(Last(stack).current_match_lines[n]))
          => /\ KeyOf(Last(stack).current_match_lines[n])
                    \in DOMAIN BlockBuilt[1].settings
             /\ BlockBuilt[1].settings[KeyOf(Last(stack).current_match_lines[n])]
                    = ValueOf(Last(stack).current_match_lines[n])
             /\ KeyOf(Last(stack).current_match_lines[n])
                    = Str(Split(Last(stack).current_match_lines[n], 1)[1])

\* C4: once a parse has met a Match line it never returns to the global
\* scope: every later line that is no Match line joins the lines of the
\* open block and leaves the global directives as they are, and an Include
\* line among them becomes an ordinary setting of the block, no file being
\* read for it.
C4_StaysInMatch ==
    [][(\A d \in 1..Len(stack) : C4_FrameStep(d)) /\ C4_IncludeIsSetting]_vars

\* ssh.py returned a tree with an Include setting inside a block after
\* reading the main file only
C4_Witness ==
    /\ pc = "done" /\ inspector = "ssh"
    /\ \E k \in 1..Len(Blocks) : "Include" \in DOMAIN Blocks[k].settings
    /\ reads = <<main_path>>

(***************************************************************************)
(* Include: the definitions and the Match blocks of an inclusion chain,    *)
(* read off the files                                                      *)
(***************************************************************************)

\* the longest inclusion chain followed, in files
MaxDepth == 3

\* the pattern of an Include line
PatternOf(line) == Str(AfterFirstWord(line))

\* the sanitized lines of a readable file, none for any other path
ReadableLines(path) ==
    IF FileAt(path).kind = "file" THEN cleanse_lines(FileAt(path).lines) ELSE <<>>

RECURSIVE DefsOfLines(_, _)
RECURSIVE DefsOfPaths(_, _)

\* the global definitions <<key, value>> of the chain of the global lines
\* given, in the order in which the lines, and at an Include line the files
\* of its pattern, are met
DefsOfLines(lines, fuel) ==
    IF lines = <<>> THEN <<>>
    ELSE (IF IsIncludeLine(Head(lines))
          THEN <<[key |-> "Include", value |-> StrVal(PatternOf(Head(lines)))]>>
               \o DefsOfPaths(Glob(PatternOf(Head(lines))), fuel)
          ELSE IF KeyOf(Head(lines)) # ""
          THEN <<[key |-> KeyOf(Head(lines)), value |-> ValueOf(Head(lines))]>>
          ELSE <<>>)
         \o DefsOfLines(Tail(lines), fuel)

\* the global definitions of the chains of the paths given, in their order
DefsOfPaths(paths, fuel) ==
    IF paths = <<>> \/ fuel = 0 THEN <<>>
    ELSE DefsOfLines(GlobalLines(ReadableLines(Head(paths))), fuel - 1)
         \o DefsOfPaths(Tail(paths), fuel)

KeysOf(defs) == {defs[i].key : i \in 1..Len(defs)}

\* the value of the first definition of key
FirstDef(defs, key) ==
    defs[CHOOSE i \in 1..Len(defs) :
            /\ defs[i].key = key
            /\ \A h \in 1..(i - 1) : defs[h].key # key].value

\* the global definitions of the whole chain of the main file
ChainDefs == DefsOfPaths(<<main_path>>, MaxDepth)

\* the positions of the Include lines in the global scope of the main file
MainIncludes ==
    {i \in 1..Len(GlobalLines(MainConfigLines)) : IsIncludeLine(MainConfigLines[i])}

\* the definitions of the main file before its line i
DefsBefore(i) == DefsOfLines(SubSeq(MainConfigLines, 1, i - 1), MaxDepth - 1)

\* the definitions pulled in by the Include line i of the main file
DefsIncludedAt(i) == DefsOfPaths(Glob(PatternOf(MainConfigLines[i])), MaxDepth - 1)

\* the definitions of the chain of the a-th path of the Include line i
DefsOfMatched(i, a) ==
    DefsOfPaths(<<Glob(PatternOf(MainConfigLines[i]))[a]>>, MaxDepth - 1)

\* the blocks of the Match lines of the lines given, one per Match line
OwnBlocks(lines) ==
    [k \in 1..Len(MatchPos(lines)) |->
        _build_match_block(inspector,
                           Str(AfterFirstWord(lines[MatchPos(lines)[k]])),
                           BlockLines(lines, k)).block]

RECURSIVE IncludedBlocks(_, _)
RECURSIVE BlocksOfPaths(_, _)

\* the blocks pulled in by the Include lines among the global lines given
IncludedBlocks(lines, fuel) ==
    IF lines = <<>> THEN <<>>
    ELSE (IF IsIncludeLine(Head(lines))
          THEN BlocksOfPaths(Glob(PatternOf(Head(lines))), fuel)
          ELSE <<>>)
         \o IncludedBlocks(Tail(lines), fuel)

\* the blocks of the chains of the paths given: for each path in turn, the
\* blocks its file pulls in, then the file's own
BlocksOfPaths(paths, fuel) ==
    IF paths = <<>> \/ fuel = 0 THEN <<>>
    ELSE IncludedBlocks(GlobalLines(ReadableLines(Head(paths))), fuel - 1)
         \o OwnBlocks(ReadableLines(Head(paths)))
         \o BlocksOfPaths(Tail(paths), fuel)

\* C5: SSHDInspector: the files matched by an Include line of the global
\* scope are parsed and merged: a key they define globally is in the tree
\* returned, and has the included value unless the main file defines the key
\* before the Include line.
C5_SshdExpandsInclude ==
    (pc = "done" /\ inspector = "sshd") =>
        \A i \in MainIncludes :
            \A k \in KeysOf(DefsIncludedAt(i)) \ {"Include"} :
                /\ k \in DOMAIN sshd_config.config
                /\ k \notin KeysOf(DefsBefore(i))
                   => sshd_config.config[k] = FirstDef(DefsIncludedAt(i), k)

\* config has every key of defs, with the value of its first definition
HoldsFirstOf(config, defs) ==
    \A k \in KeysOf(defs) : k \in DOMAIN config /\ config[k] = FirstDef(defs, k)

\* C6: SSHInspector: every key defined in the global scope of the inclusion
\* chain has, in the tree returned, the value of its first definition in
\* the chain: a parent's line before an Include line wins over the included
\* files, and these win over the parent's lines after it, at every depth.
C6_FirstDefinitionInChainWins ==
    (pc = "done" /\ inspector = "ssh") => HoldsFirstOf(sshd_config.config, ChainDefs)

\* a tree was returned in which a key has the value of the main file's line
\* before the Include line, against another included value, and a key has an
\* included value, against another value on a later line of the main file
C6_Witness ==
    /\ pc = "done" /\ inspector = "ssh"
    /\ \E i \in MainIncludes :
          /\ \E k \in KeysOf(DefsBefore(i)) \cap KeysOf(DefsIncludedAt(i)) :
                /\ FirstDef(DefsBefore(i), k) # FirstDef(DefsIncludedAt(i), k)
                /\ sshd_config.config[k] = FirstDef(DefsBefore(i), k)
          /\ \E j \in MainIncludes :
                \E k \in KeysOf(DefsIncludedAt(j)) \ KeysOf(DefsBefore(j)) :
                    /\ \E h \in (j + 1)..Len(GlobalLines(MainConfigLines)) :
                          /\ KeyOf(MainConfigLines[h]) = k
                          /\ ValueOf(MainConfigLines[h]) # FirstDef(DefsIncludedAt(j), k)
                    /\ sshd_config.config[k] = FirstDef(DefsIncludedAt(j), k)

\* paths a and b of the Include line i, a before b, both define key k, which
\* nothing before a in the chain of the main file defines
FirstOfTwo(i, a, b, k) ==
    /\ a < b
    /\ k \in KeysOf(DefsOfMatched(i, a)) \cap KeysOf(DefsOfMatched(i, b))
    /\ k \notin KeysOf(DefsBefore(i)) \cup {"Include"}
    /\ \A h \in 1..(a - 1) : k \notin KeysOf(DefsOfMatched(i, h))

\* C7: SSHInspector: of two files matched by one Include pattern that define
\* a key, the tree returned holds the value of the file that is first in
\* the order of the glob result, and so not the other value of the later one.
C7_FirstMatchedFileWins ==
    (pc = "done" /\ inspector = "ssh") =>
        \A i \in MainIncludes :
            \A a, b \in 1..Len(Glob(PatternOf(MainConfigLines[i]))) :
                \A k \in KeysOf(DefsOfMatched(i, a)) :
                    FirstOfTwo(i, a, b, k)
                    => /\ k \in DOMAIN sshd_config.config
                       /\ sshd_config.config[k] = FirstDef(DefsOfMatched(i, a), k)

\* a tree was returned that holds, for a key, the value of the file matched
\* first, a later file of the pattern giving the key another value
C7_Witness ==
    /\ pc = "done" /\ inspector = "ssh"
    /\ \E i \in MainIncludes :
          \E a, b \in 1..Len(Glob(PatternOf(MainConfigLines[i]))) :
              \E k \in KeysOf(DefsOfMatched(i, a)) :
                  /\ FirstOfTwo(i, a, b, k)
                  /\ FirstDef(DefsOfMatched(i, b), k) # FirstDef(DefsOfMatched(i, a), k)
                  /\ sshd_config.config[k] = FirstDef(DefsOfMatched(i, a), k)
                  /\ sshd_config.config[k] # FirstDef(DefsOfMatched(i, b), k)

\* C8: SSHInspector: the Match list returned is the blocks pulled in by the
\* Include lines, in the order of the Include lines, of the files of each
\* glob result and of the blocks in each file, none merged or dropped for
\* an equal criterion, followed by the blocks of the main file's own Match
\* lines.
C8_IncludedBlocksConcatenated ==
    (pc = "done" /\ inspector = "ssh") =>
        Blocks = IncludedBlocks(GlobalLines(MainConfigLines), MaxDepth - 1)
                 \o OwnBlocks(MainConfigLines)

\* a Match list was returned with two included blocks of one criterion, of
\* two files, before a block of the main file
C8_Witness ==
    /\ pc = "done" /\ inspector = "ssh"
    /\ OwnBlocks(MainConfigLines) # <<>>
    /\ Len(Blocks) = Len(IncludedBlocks(GlobalLines(MainConfigLines), MaxDepth - 1))
                     + Len(OwnBlocks(MainConfigLines))
    /\ \E a, b \in 1..Len(IncludedBlocks(GlobalLines(MainConfigLines), MaxDepth - 1)) :
          /\ a < b
          /\ Blocks[a].criterium = Blocks[b].criterium
          /\ Blocks[a].settings # Blocks[b].settings

\* the paths of the chain read so far
ReadPaths == {reads[i] : i \in 1..Len(reads)}

\* every entry of config is a definition of defs
OnlyFrom(config, defs) ==
    \A k \in DOMAIN config :
        \E i \in 1..Len(defs) : defs[i] = [key |-> k, value |-> config[k]]

\* the readable files among paths were read
ReadableRead(paths) ==
    \A a \in 1..Len(paths) : FileAt(paths[a]).kind = "file" => paths[a] \in ReadPaths

\* C10: a path that is missing, a directory or unreadable gives zero lines
\* to the parse that reads it and no exception; the readable files of the
\* chain are all read and their keys are in the tree returned, which holds
\* nothing but what readable files define; with such a main path the
\* inspector is constructed with the empty tree.
C10_UnreadableIsEmpty ==
    /\ pc # "raised" /\ exception = ""
    /\ \A d \in 1..Len(stack) :
          FileAt(stack[d].path).kind # "file" => stack[d].config_lines = <<>>
    /\ (pc = "done" /\ FileAt(main_path).kind # "file") => sshd_config = EmptyTree
    /\ (pc = "done" /\ inspector = "ssh") =>
          /\ KeysOf(ChainDefs) \subseteq DOMAIN sshd_config.config
          /\ OnlyFrom(sshd_config.config, ChainDefs)
          /\ \A i \in MainIncludes : ReadableRead(Glob(PatternOf(MainConfigLines[i])))

\* the definitions of the global scope of the file at path itself
OwnDefs(path) == DefsOfPaths(<<path>>, 1)

\* a tree was returned after an unreadable file was opened for an Include
\* line, and a file read after it gave the tree a key no other file defines
C10_Witness ==
    /\ pc = "done" /\ inspector = "ssh"
    /\ \E i, j \in 1..Len(reads) :
          /\ i < j
          /\ FileAt(reads[i]).kind = "unreadable"
          /\ FileAt(reads[j]).kind = "file"
          /\ \E k \in KeysOf(OwnDefs(reads[j])) :
                /\ \A h \in 1..Len(reads) :
                      reads[h] # reads[j] => k \notin KeysOf(OwnDefs(reads[h]))
                /\ k \in DOMAIN sshd_config.config
                /\ sshd_config.config[k] = FirstDef(OwnDefs(reads[j]), k)

(***************************************************************************)
(* compare and compare_to                                                  *)
(***************************************************************************)

\* compare_to has been called
Compared1 == pc = "done" /\ passed # <<>>

\* the target tree of the most recent call
LastTarget == passed[Len(passed)]

\* key k is in none of the dictionaries given
InNone(k, dicts) == \A i \in DOMAIN dicts : k \notin DOMAIN dicts[i]

\* key k is in dictionary d with value v
Holds(d, k, v) == k \in DOMAIN d /\ d[k] = v

\* the four cases of the flat-key diff for key k, values being equal when
\* they are the same value of the same type
FlatKeyCase(k, actual, target, matched, missing, extra) ==
    /\ (k \in DOMAIN actual /\ k \in DOMAIN target /\ actual[k] = target[k])
       => Holds(matched, k, target[k]) /\ InNone(k, <<missing, extra>>)
    /\ (k \in DOMAIN actual /\ k \in DOMAIN target /\ actual[k] # target[k])
       => /\ Holds(missing, k, target[k])
          /\ Holds(extra, k, actual[k])
          /\ InNone(k, <<matched>>)
    /\ (k \notin DOMAIN actual /\ k \in DOMAIN target)
       => Holds(missing, k, target[k]) /\ InNone(k, <<matched, extra>>)
    /\ (k \in DOMAIN actual /\ k \notin DOMAIN target)
       => Holds(extra, k, actual[k]) /\ InNone(k, <<matched, missing>>)

\* C11: after compare_to, every flat key of the actual or the target tree is
\* reported by its case: equal in both, in matching only; unequal in both,
\* the target's value in missing_from_actual and the actual's value in
\* extra_in_actual; in the target only, in missing_from_actual only; in the
\* actual tree only, in extra_in_actual only.
C11_FlatKeyDiff ==
    Compared1 =>
        \A k \in DOMAIN sshd_config.config \cup DOMAIN LastTarget.config :
            FlatKeyCase(k, sshd_config.config, LastTarget.config,
                        matching_config.config, missing_from_actual.config,
                        extra_in_actual.config)

\* C12: compare_to with a target equal to the actual tree gives a
\* matching_config equal to that tree and empty missing_from_actual and
\* extra_in_actual.
C12_RoundTrip ==
    (Compared1 /\ LastTarget = sshd_config) =>
        /\ matching_config = sshd_config
        /\ missing_from_actual = EmptyTree
        /\ extra_in_actual = EmptyTree

\* the criteria of a Match list
Criteria(matches) == {matches[i].criterium : i \in DOMAIN matches}

\* the blocks of a Match list with the criterion c
BlocksWith(matches, c) == {i \in DOMAIN matches : matches[i].criterium = c}

\* the Match list has an entry for block that carries all its settings
Carries(matches, block) ==
    \E i \in BlocksWith(matches, block.criterium) :
        \A k \in DOMAIN block.settings : Holds(matches[i].settings, k, block.settings[k])

\* every block of the Match list here, with some setting and a criterion
\* that occurs once here and not in the Match list there, has an entry with
\* all its settings in the list mine and no entry in the two other lists
OnlyHere(here, there, mine, other1, other2) ==
    \A i \in DOMAIN here :
        (/\ here[i].criterium \notin Criteria(there)
         /\ BlocksWith(here, here[i].criterium) = {i}
         /\ DOMAIN here[i].settings # {})
        => /\ Carries(mine, here[i])
           /\ here[i].criterium \notin Criteria(other1) \cup Criteria(other2)

\* C13: a Match block whose criterion is in the actual tree only has an
\* entry with all its settings in extra_in_actual.Match and none in
\* missing_from_actual.Match or matching_config.Match; a block whose
\* criterion is in the target only has one in missing_from_actual.Match only.
C13_MatchBlockIndependence ==
    Compared1 =>
        /\ OnlyHere(MatchList(sshd_config), MatchList(LastTarget),
                    MatchList(extra_in_actual),
                    MatchList(missing_from_actual), MatchList(matching_config))
        /\ OnlyHere(MatchList(LastTarget), MatchList(sshd_config),
                    MatchList(missing_from_actual),
                    MatchList(extra_in_actual), MatchList(matching_config))

\* every entry of dictionary d is an entry of dictionary a or of dictionary b
EntriesFrom(d, a, b) ==
    \A k \in DOMAIN d : Holds(a, k, d[k]) \/ Holds(b, k, d[k])

\* every block of the Match list result has its criterion, and each of its
\* settings with its value, in a block of the Match list a or b
BlocksFrom(result, a, b) ==
    \A i \in DOMAIN result :
        \A k \in DOMAIN result[i].settings :
            \E m \in {a, b} :
                \E j \in BlocksWith(m, result[i].criterium) :
                    Holds(m[j].settings, k, result[i].settings[k])

\* the criteria of result are criteria of a or b
CriteriaFrom(result, a, b) == Criteria(result) \subseteq Criteria(a) \cup Criteria(b)

\* C14: whatever compare_to reports is in the trees compared: a key of
\* matching_config is in the actual or the target tree with that value, a
\* key of missing_from_actual is in the target with that value, a key of
\* extra_in_actual is in the actual tree with that value; likewise the
\* criteria and the settings of the three Match lists.
C14_Complementarity ==
    Compared1 =>
        /\ EntriesFrom(matching_config.config, sshd_config.config, LastTarget.config)
        /\ EntriesFrom(missing_from_actual.config, LastTarget.config, LastTarget.config)
        /\ EntriesFrom(extra_in_actual.config, sshd_config.config, sshd_config.config)
        /\ CriteriaFrom(MatchList(matching_config),
                        MatchList(sshd_config), MatchList(LastTarget))
        /\ CriteriaFrom(MatchList(missing_from_actual),
                        MatchList(LastTarget), MatchList(LastTarget))
        /\ CriteriaFrom(MatchList(extra_in_actual),
                        MatchList(sshd_config), MatchList(sshd_config))
        /\ BlocksFrom(MatchList(matching_config),
                      MatchList(sshd_config), MatchList(LastTarget))
        /\ BlocksFrom(MatchList(missing_from_actual),
                      MatchList(LastTarget), MatchList(LastTarget))
        /\ BlocksFrom(MatchList(extra_in_actual),
                      MatchList(sshd_config), MatchList(sshd_config))

\* a comparison that reports a setting of a Match block as missing, with
\* the target's value, and as extra, with the actual value, and a flat key
\* of the actual tree as extra
C14_Witness ==
    /\ Compared1
    /\ DOMAIN extra_in_actual.config # {}
    /\ \E i \in DOMAIN MatchList(missing_from_actual) :
          \E j \in DOMAIN MatchList(extra_in_actual) :
              /\ MatchList(missing_from_actual)[i].criterium
                    = MatchList(extra_in_actual)[j].criterium
              /\ DOMAIN MatchList(missing_from_actual)[i].settings
                    = DOMAIN MatchList(extra_in_actual)[j].settings

\* an Integer and a Boolean
TypesDiffer(a, b) == a.t \in {"int", "bool"} /\ b.t \in {"int", "bool"} /\ a.t # b.t

\* key k, an Integer on one side and a Boolean on the other, is reported as
\* a mismatch
ReportedMismatch(k, actual, target, matched, missing, extra) ==
    (k \in DOMAIN actual /\ k \in DOMAIN target /\ TypesDiffer(actual[k], target[k]))
    => /\ k \notin DOMAIN matched
       /\ Holds(missing, k, target[k])
       /\ Holds(extra, k, actual[k])

\* the settings of the entry of the Match list for criterion c, none if
\* there is no entry
EntryOf(matches, c) == SettingsOf(MatchesMap(matches), c)

\* C15: a key that is an Integer in one tree and a Boolean in the other, at
\* top level or in the Match blocks of one criterion, is never in
\* matching_config: the target's value is in missing_from_actual and the
\* actual value in extra_in_actual.
C15_TypesNeverEqual ==
    Compared1 =>
        /\ \A k \in DOMAIN sshd_config.config :
              ReportedMismatch(k, sshd_config.config, LastTarget.config,
                               matching_config.config, missing_from_actual.config,
                               extra_in_actual.config)
        /\ \A c \in Criteria(MatchList(sshd_config)) \cap Criteria(MatchList(LastTarget)) :
              \A k \in DOMAIN EntryOf(MatchList(sshd_config), c) :
                  ReportedMismatch(k, EntryOf(MatchList(sshd_config), c),
                                   EntryOf(MatchList(LastTarget), c),
                                   EntryOf(MatchList(matching_config), c),
                                   EntryOf(MatchList(missing_from_actual), c),
                                   EntryOf(MatchList(extra_in_actual), c))

\* the value of key k in d, if any, is a String
StringIn(d, k) == k \in DOMAIN d => d[k].t = "str"

\* C16, as the claim has it: no Include key is in matching_config,
\* missing_from_actual or extra_in_actual.
C16_IncludeExcluded ==
    Compared1 =>
        InNone("Include", <<matching_config.config, missing_from_actual.config,
                            extra_in_actual.config>>)

\* C16, amended: the key Include, its values being pattern strings, is
\* compared like any other flat key: equal patterns, in matching_config
\* only; unequal patterns, the target's in missing_from_actual and the
\* actual one in extra_in_actual; in the target only, in
\* missing_from_actual only; in the actual tree only, in extra_in_actual
\* only.
C16_IncludeCompared ==
    (/\ Compared1
     /\ StringIn(sshd_config.config, "Include")
     /\ StringIn(LastTarget.config, "Include"))
    => FlatKeyCase("Include", sshd_config.config, LastTarget.config,
                   matching_config.config, missing_from_actual.config,
                   extra_in_actual.config)

\* a comparison of two trees with the same Include pattern, which is
\* reported as matching
C16_Witness ==
    /\ Compared1
    /\ "Include" \in DOMAIN sshd_config.config
    /\ "Include" \in DOMAIN LastTarget.config
    /\ sshd_config.config["Include"] = LastTarget.config["Include"]
    /\ Holds(matching_config.config, "Include", StrVal("p"))

(***************************************************************************)
(* The directive parser on one line (SpecVal)                              *)
(***************************************************************************)

\* the directive line of the main file: its last line
DirectiveLine == MainConfigLines[Len(MainConfigLines)]

\* the dictionary the directive line is stored in: the global directives,
\* or the settings of the Match block the line is in
StoredIn ==
    IF Len(MainConfigLines) = 1 THEN sshd_config.config ELSE Blocks[1].settings

\* the first token of a line, as written and in lower case
FirstToken(line) == Str(Split(line, 1)[1])
DirectiveWord(line) == Str(Lower(Split(line, 1)[1]))

\* a line K V of the generic path
IsGenericLine(line) ==
    /\ Len(Split(line, 1)) = 2
    /\ DirectiveWord(line) \notin {"match", "include", "subsystem", "acceptenv"}

\* text without one pair of surrounding double quotes, if it has one
Unquoted(text) ==
    IF Len(text) >= 2 /\ text[1] = "\"" /\ text[Len(text)] = "\""
    THEN SubSeq(text, 2, Len(text) - 1)
    ELSE text

AllDigits(text) == text # <<>> /\ \A i \in 1..Len(text) : text[i] \in DOMAIN DigitVal

\* a base-10 integer, optionally with a leading "-"
IsDecimal(text) ==
    text # <<>> /\ AllDigits(IF text[1] = "-" THEN Tail(text) ELSE text)

DecimalValue(text) ==
    IF text[1] = "-" THEN 0 - DigitsValue(Tail(text), 0) ELSE DigitsValue(text, 0)

\* the value of an unquoted text: Integer, Boolean or the String verbatim
Typed(text) ==
    IF IsDecimal(text) THEN IntVal(DecimalValue(text))
    ELSE IF Str(Lower(text)) = "yes" THEN BoolVal(TRUE)
    ELSE IF Str(Lower(text)) = "no" THEN BoolVal(FALSE)
    ELSE StrVal(Str(text))

\* C17: a line K V whose first token is not match, include, subsystem or
\* acceptenv, in global scope or in a Match block, is stored under its
\* first token as written, with the value of its text after the removal of
\* one pair of surrounding double quotes: the Integer when the text is a
\* base-10 integer with an optional leading "-", Boolean true for yes and
\* false for no in any case, the String verbatim otherwise.
C17_ValueCoercion ==
    (pc = "done" /\ IsGenericLine(DirectiveLine))
    => Holds(StoredIn, FirstToken(DirectiveLine),
             Typed(Unquoted(AfterFirstWord(DirectiveLine))))

\* the tokens of a Subsystem line: the directive word, the name, the path
SubsystemTokens(line) == Split(line, 2)

\* a line "Subsystem <name> <path>", the directive word in any case
IsSubsystemLine(line) ==
    DirectiveWord(line) = "subsystem" /\ Len(SubsystemTokens(line)) = 3

\* a line "AcceptEnv <rest>", the directive word in any case
IsAcceptEnvLine(line) ==
    DirectiveWord(line) = "acceptenv" /\ Len(Split(line, 1)) = 2

\* C18: a line "Subsystem <name> <path>", the directive word in any case,
\* is stored under the composite key "Subsystem <name>" with the path as a
\* String, and a line "AcceptEnv <rest>" under the key "AcceptEnv" with
\* the whole remainder as one String; neither value is type-coerced.
C18_SpecialDirectives ==
    pc = "done" =>
        /\ IsSubsystemLine(DirectiveLine)
           => Holds(StoredIn,
                    "Subsystem " \o Str(SubsystemTokens(DirectiveLine)[2]),
                    StrVal(Str(Strip(SubsystemTokens(DirectiveLine)[3]))))
        /\ IsAcceptEnvLine(DirectiveLine)
           => Holds(StoredIn, "AcceptEnv", StrVal(Str(AfterFirstWord(DirectiveLine))))

\* a line of a single token that is none of the four special directive words
IsSingleToken(line) ==
    /\ Len(Split(line, 1)) = 1
    /\ DirectiveWord(line) \notin {"match", "include", "subsystem", "acceptenv"}

\* C19: in SSHDInspector and in SSHInspector a directive line of a single
\* token K is stored as K with the no-value sentinel None, and no line with
\* an explicit value is stored with the sentinel: None differs from the
\* empty string, from Boolean false and from every value such a line gives.
C19_SingleTokenIsNone ==
    pc = "done" =>
        /\ IsSingleToken(DirectiveLine)
           => Holds(StoredIn, FirstToken(DirectiveLine), NoneVal)
        /\ IsGenericLine(DirectiveLine)
           => /\ FirstToken(DirectiveLine) \in DOMAIN StoredIn
              /\ StoredIn[FirstToken(DirectiveLine)] # NoneVal

(***************************************************************************)
(* Sequences of compare_to calls (SpecCalls)                               *)
(***************************************************************************)

\* the three result attributes are what compare gives for the tree of the
\* inspector and the target given
DiffOf(target) ==
    \E order \in Orders(AllCriteria(MatchList(sshd_config), MatchList(target))) :
        /\ matching_config = compare(sshd_config, target, order).matching
        /\ missing_from_actual = compare(sshd_config, target, order).missing
        /\ extra_in_actual = compare(sshd_config, target, order).extra

\* a step of a constructed inspector leaves its tree, its file paths and
\* the targets of the calls before as they are
InputsKept ==
    (pc = "done" /\ pc' = "done") =>
        /\ sshd_config' = sshd_config
        /\ config_file_paths' = config_file_paths
        /\ Len(passed') >= Len(passed)
        /\ SubSeq(passed', 1, Len(passed)) = passed

\* C20: after any sequence of compare_to calls on one SSHDInspector the
\* tree and the file paths built at construction and the target trees
\* passed in are unchanged, and matching_config, missing_from_actual and
\* extra_in_actual are the diff of the tree against the most recent target
\* only.
C20_CompareToFrame ==
    /\ [](Compared1 => DiffOf(LastTarget))
    /\ [](pc = "done" => config_file_paths = _discover_config_files(inspector, main_path))
    /\ [][InputsKept]_vars

\* two calls with different targets, the results of the second differing
\* from those of the first
C20_Witness ==
    /\ pc = "done"
    /\ Len(passed) = 2
    /\ passed[1] # passed[2]
    /\ sshd_config # EmptyTree
    /\ DiffOf(passed[2])
    /\ ~DiffOf(passed[1])

(***************************************************************************)
(* Termination of the Include expansion (SpecCyc)                          *)
(***************************************************************************)

\* the files among the paths a pattern matches
GlobbedFiles(paths) == {paths[j] : j \in {j \in 1..Len(paths) : IsFile(paths[j])}}

\* the files the Include lines among the lines given pull in
IncludedByLines(lines) ==
    UNION {GlobbedFiles(Glob(PatternOf(lines[i]))) :
              i \in {i \in 1..Len(lines) : IsIncludeLine(lines[i])}}

\* the files the Include lines of the global scope of a file pull in
IncludedBy(path) == IncludedByLines(GlobalLines(ReadableLines(path)))

\* the include graph: for every file, the files it pulls in
IncludeGraph == [path \in DOMAIN files |-> IncludedBy(path)]

RECURSIVE IncludeClosure(_, _, _)
\* the files pulled in by the files of S in at most n further steps
IncludeClosure(graph, S, n) ==
    IF n = 0 THEN S
    ELSE IncludeClosure(graph, S \cup UNION {graph[path] : path \in S}, n - 1)

\* the files a file pulls in, directly or transitively
PulledInBy(graph, path) == IncludeClosure(graph, graph[path], Cardinality(DOMAIN graph))

\* a file the parse of the main file reaches is pulled in by itself
CycleIn(graph) ==
    \E path \in {main_path} \cup PulledInBy(graph, main_path) :
        path \in PulledInBy(graph, path)

IncludeCycle == CycleIn(IncludeGraph)

\* C21: SSHInspector: when no file reached from the main file is pulled in,
\* directly or transitively, by an Include line of its own global scope,
\* the parse ends with a tree and in no other way; when one is, the
\* recursion is not cut and the parse never ends with a tree.
C21_TerminatesIffAcyclic ==
    /\ pc = "raised" => IncludeCycle
    /\ pc = "done" => ~IncludeCycle

(***************************************************************************)
(* The line sanitizer                                                      *)
(***************************************************************************)

\* the lines whose trimmed form is neither empty nor a comment, trimmed, in
\* the order of the input
Sanitized(raw_lines) ==
    LET kept == SelectSeq(raw_lines,
                    LAMBDA line : Strip(line) # <<>> /\ Head(Strip(line)) # "#")
    IN  [i \in 1..Len(kept) |-> Strip(kept[i])]

\* C22: the lines cleanse_lines returns for a file read (the lines every
\* call of the parser works on) are, in input order, the lines of the file
\* whose trimmed form is neither empty nor starts with "#", each trimmed of
\* its leading and trailing whitespace and otherwise unchanged.
C22_SanitizedLines ==
    \A k \in 1..Len(stack) :
        stack[k].config_lines = Sanitized(read_lines(stack[k].path))

(***************************************************************************)
(* SysctlInspector.compare_to (SpecSysctl)                                 *)
(***************************************************************************)

\* key k of a file, with different values in actual and target, is
\* reported on both sides
BothSides(k, actual, target, matched, missing, extra) ==
    (k \in DOMAIN actual /\ k \in DOMAIN target /\ actual[k] # target[k])
    => /\ Holds(missing, k, target[k])
       /\ Holds(extra, k, actual[k])
       /\ k \notin DOMAIN matched

\* C23: SysctlInspector: after compare_to, a key that the actual and the
\* target configuration of a file both hold, with different values, is in
\* missing_from_actual of the file with the target's value, in
\* extra_in_actual of the file with the actual value, and not in matching.
C23_SysctlMismatchBothSides ==
    Compared1 =>
        \A filename \in DOMAIN sysctl_config \cap DOMAIN LastTarget :
            \A k \in DOMAIN sysctl_config[filename] :
                BothSides(k, sysctl_config[filename], LastTarget[filename],
                          matching[filename], missing_from_actual[filename],
                          extra_in_actual[filename])

\* the per-file diff of the parsed configuration against a target
PerFileDiff(target_config, part) ==
    [filename \in AllFilenames(target_config) |->
        _compare(GetFile(sysctl_config, filename),
                 GetFile(target_config, filename))[part]]

\* C29: SysctlInspector: after any sequence of compare_to calls, matching,
\* missing_from_actual and extra_in_actual have entries only for the file
\* names of the parsed configuration and of the most recent target, and
\* each entry is the per-file diff against the most recent target.
C29_NoStaleResults ==
    Compared1 =>
        /\ matching = PerFileDiff(LastTarget, "matching")
        /\ missing_from_actual = PerFileDiff(LastTarget, "missing")
        /\ extra_in_actual = PerFileDiff(LastTarget, "extra")

(***************************************************************************)
(* PamLimits.compare_to (SpecPam)                                          *)
(***************************************************************************)

\* the parsed entries and the entries of the most recent target, as sets
ActualSet == Elements(actual_limits_config)
TargetSet == Elements(_convert_dicts_to_pam_limit_entries(LastTarget))

\* two entries of the same file, domain, limit_type and limit_item
SameLimit(a, b) ==
    /\ a.file = b.file /\ a.domain = b.domain
    /\ a.limit_type = b.limit_type /\ a.limit_item = b.limit_item

\* a is the only entry of S for its file, domain, limit_type and limit_item
OnlyOne(a, S) == \A b \in S : SameLimit(a, b) => b = a

\* the entry of the target t and the entry of the system a are one limit
\* with two values
DiffersOnlyInValue(a, t) ==
    /\ a \in ActualSet /\ t \in TargetSet
    /\ SameLimit(a, t) /\ a.value # t.value
    /\ OnlyOne(a, ActualSet) /\ OnlyOne(t, TargetSet)

\* C24: PamLimits.compare_to: with the parsed entries and the target's
\* entries taken as sets of (file, domain, limit_type, limit_item, value)
\* records, matching is their intersection, missing_from_actual is target
\* minus actual and extra_in_actual is actual minus target; the three are
\* pairwise disjoint, matching and missing make up the target, matching and
\* extra make up the actual, and a limit whose value differs is in missing
\* (target's record) and in extra (the system's record).
C24_PamSetAlgebra ==
    (inspector = "pam" /\ Compared1) =>
        /\ Elements(matching_limits) = ActualSet \cap TargetSet
        /\ Elements(missing_from_actual) = TargetSet \ ActualSet
        /\ Elements(extra_in_actual) = ActualSet \ TargetSet
        /\ Elements(matching_limits) \cap Elements(missing_from_actual) = {}
        /\ Elements(matching_limits) \cap Elements(extra_in_actual) = {}
        /\ Elements(missing_from_actual) \cap Elements(extra_in_actual) = {}
        /\ Elements(matching_limits) \cup Elements(missing_from_actual) = TargetSet
        /\ Elements(matching_limits) \cup Elements(extra_in_actual) = ActualSet
        /\ \A a \in ActualSet, t \in TargetSet :
               DiffersOnlyInValue(a, t)
               => /\ t \in Elements(missing_from_actual)
                  /\ a \in Elements(extra_in_actual)

\* a comparison with a limit of two values, a matching entry, and a target
\* value that was converted to int
C24_Witness ==
    /\ inspector = "pam" /\ Compared1
    /\ matching_limits # <<>>
    /\ \E a \in Elements(extra_in_actual), t \in Elements(missing_from_actual) :
           DiffersOnlyInValue(a, t)
    /\ \E i \in DOMAIN LastTarget :
           "value" \in DOMAIN LastTarget[i] /\ LastTarget[i].value.t # "int"

(***************************************************************************)
(* The Match lists of the comparator (SpecCmp)                             *)
(***************************************************************************)

\* C25: after compare_to, for every criterion of the actual or the target
\* Match list, the settings reported for it in matching_config,
\* missing_from_actual and extra_in_actual are the four-case flat-key diff
\* of the actual and the target settings of that criterion, a side without
\* the criterion counting as empty settings, whatever the values are (the
\* no-value None included).
C25_MatchDiffIsFlatDiff ==
    Compared1 =>
        \A c \in Criteria(MatchList(sshd_config)) \cup Criteria(MatchList(LastTarget)) :
            \A k \in DOMAIN EntryOf(MatchList(sshd_config), c)
                     \cup DOMAIN EntryOf(MatchList(LastTarget), c) :
                FlatKeyCase(k, EntryOf(MatchList(sshd_config), c),
                            EntryOf(MatchList(LastTarget), c),
                            EntryOf(MatchList(matching_config), c),
                            EntryOf(MatchList(missing_from_actual), c),
                            EntryOf(MatchList(extra_in_actual), c))

\* the shape of one result of compare: no Match key with an empty list, no
\* block without settings, no criterion twice
MatchShape(result) ==
    /\ result.Match # Some(<<>>)
    /\ \A i \in DOMAIN MatchList(result) : DOMAIN MatchList(result)[i].settings # {}
    /\ \A i, j \in DOMAIN MatchList(result) :
           MatchList(result)[i].criterium = MatchList(result)[j].criterium => i = j

\* C26: after compare_to, each of matching_config, missing_from_actual and
\* extra_in_actual has a Match key only with a non-empty list of blocks,
\* every block of the list has at least one setting, and no criterion is in
\* a list twice.
C26_MatchResultShape ==
    Compared1 =>
        /\ MatchShape(matching_config)
        /\ MatchShape(missing_from_actual)
        /\ MatchShape(extra_in_actual)

\* a comparison of two trees with Match blocks: missing_from_actual holds
\* two blocks, matching_config has no Match key, and a criterion of the
\* actual tree has no block in extra_in_actual
C26_Witness ==
    /\ Compared1
    /\ MatchList(sshd_config) # <<>>
    /\ Len(MatchList(missing_from_actual)) = 2
    /\ matching_config.Match = None
    /\ \E c \in Criteria(MatchList(sshd_config)) :
           c \notin Criteria(MatchList(extra_in_actual))

\* block i is the last block of its criterion in the Match list
IsLastOfCriterion(matches, i) ==
    \A j \in DOMAIN matches : j > i => matches[j].criterium # matches[i].criterium

RECURSIVE LastBlocks(_, _)
\* the Match list without the blocks that a later block of the same
\* criterion follows, from block i on
LastBlocks(matches, i) ==
    IF i > Len(matches) THEN <<>>
    ELSE (IF IsLastOfCriterion(matches, i) THEN <<matches[i]>> ELSE <<>>)
         \o LastBlocks(matches, i + 1)

\* the tree with the last block of every criterion only
LastOnly(tree) == AttachMatch(tree.config, LastBlocks(MatchList(tree), 1))

\* a Match list with two blocks of one criterion and different settings
Repeats(matches) ==
    \E i, j \in DOMAIN matches :
        /\ i < j
        /\ matches[i].criterium = matches[j].criterium
        /\ matches[i].settings # matches[j].settings

\* the three results are the dictionaries r
ResultsAre(r) ==
    /\ matching_config = r.matching
    /\ missing_from_actual = r.missing
    /\ extra_in_actual = r.extra

\* the three results are those of the comparison of the trees actual and
\* target
ResultsOf(actual, target) ==
    \E order \in Orders(AllCriteria(MatchList(actual), MatchList(target))) :
        ResultsAre(compare(actual, target, order))

\* C27: where a Match list of the actual or the target tree has several
\* blocks of one criterion, compare_to reports what it reports for the trees
\* that hold the last block of every criterion only: the earlier blocks have
\* no part in matching_config, missing_from_actual and extra_in_actual.
C27_LastBlockWins ==
    Compared1 => ResultsOf(LastOnly(sshd_config), LastOnly(LastTarget))

\* a comparison of two trees that both repeat a criterion with other
\* settings, with a block reported as missing
C27_Witness ==
    /\ Compared1
    /\ Repeats(MatchList(sshd_config))
    /\ Repeats(MatchList(LastTarget))
    /\ MatchList(missing_from_actual) # <<>>

(***************************************************************************)
(* Several Include lines (SpecSeveral)                                     *)
(***************************************************************************)

\* the first Include line of the global scope of the main file
FirstInclude == CHOOSE i \in MainIncludes : \A h \in MainIncludes : i <= h

\* the blocks b are among the blocks of the Match list returned
AmongBlocks(b) == \A i \in DOMAIN b : \E h \in DOMAIN Blocks : Blocks[h] = b[i]

\* the files of the Include line i of the main file were read, the keys
\* their chains define are in the tree returned and so are their blocks
ExpandedAndMerged(i) ==
    /\ GlobbedFiles(Glob(PatternOf(MainConfigLines[i]))) \subseteq ReadPaths
    /\ KeysOf(DefsIncludedAt(i)) \subseteq DOMAIN sshd_config.config
    /\ AmongBlocks(BlocksOfPaths(Glob(PatternOf(MainConfigLines[i])), MaxDepth - 1))

\* C28: SSHInspector: the tree returned for a main file with Include lines
\* in its global scope holds, under Include, the trimmed pattern of the
\* first of them, whatever the later Include lines and the Include lines of
\* the included files say, and the files matched by the pattern of every
\* one of these Include lines are read and merged.
C28_FirstIncludeRecorded ==
    (pc = "done" /\ inspector = "ssh" /\ MainIncludes # {}) =>
        /\ Holds(sshd_config.config, "Include",
                 StrVal(PatternOf(MainConfigLines[FirstInclude])))
        /\ \A i \in MainIncludes : ExpandedAndMerged(i)

\* a tree returned for a main file with two Include lines of different
\* patterns, the second of which brought in a file, and with an included
\* file that has an Include line of yet another pattern
C28_Witness ==
    /\ pc = "done" /\ inspector = "ssh"
    /\ \E i \in MainIncludes :
          /\ i # FirstInclude
          /\ PatternOf(MainConfigLines[i]) # PatternOf(MainConfigLines[FirstInclude])
          /\ GlobbedFiles(Glob(PatternOf(MainConfigLines[i]))) # {}
          /\ GlobbedFiles(Glob(PatternOf(MainConfigLines[i]))) \subseteq ReadPaths
    /\ \E k \in 1..Len(DefsIncludedAt(FirstInclude)) :
          /\ DefsIncludedAt(FirstInclude)[k].key = "Include"
          /\ DefsIncludedAt(FirstInclude)[k].value
                # StrVal(PatternOf(MainConfigLines[FirstInclude]))
    /\ Holds(sshd_config.config, "Include",
             StrVal(PatternOf(MainConfigLines[FirstInclude])))

(***************************************************************************)
(* Symmetry of compare (SpecCmp)                                           *)
(***************************************************************************)

\* two result trees with the same flat keys and values and the same blocks,
\* the Match lists being taken as sets
SameResult(a, b) ==
    /\ a.config = b.config
    /\ Elements(MatchList(a)) = Elements(MatchList(b))

\* the three results are those of r with missing and extra exchanged
ResultsMirror(r) ==
    /\ SameResult(r.matching, matching_config)
    /\ SameResult(r.missing, extra_in_actual)
    /\ SameResult(r.extra, missing_from_actual)

\* C30: compare with its two trees exchanged gives the same matching
\* dictionary, the extra_in_actual as missing_from_actual and the
\* missing_from_actual as extra_in_actual, Match lists being compared as
\* sets of blocks.
C30_CompareSymmetric ==
    Compared1 =>
        \A order \in Orders(AllCriteria(MatchList(LastTarget), MatchList(sshd_config))) :
            ResultsMirror(compare(LastTarget, sshd_config, order))
====
